---------------------------- MODULE Spec2Model ----------------------------
(***************************************************************************)
(* State store of storage/aptosdb (state_store/mod.rs): the commit path    *)
(* put_value_sets / put_stats_and_indices, the point read                  *)
(* get_state_value_by_version and the crash recovery sync_commit_progress. *)
(* Further: the buffered state and its reset, the snapshot export and      *)
(* restore, SafetyRulesConfig::sanitize (config/safety_rules_config.rs)    *)
(* and the raw_datastream loop of the indexer data service (service.rs).   *)
(* The lookups of the IO_POOL scope are also modelled as tasks, and the    *)
(* point read with proof on a store whose state K/V db is pruned.          *)
(***************************************************************************)
EXTENDS Integers, Sequences, FiniteSets, TLC

(***************************************************************************)
(* Bounds of the model.                                                    *)
(***************************************************************************)
\* Number of versions one store history may commit after its first version.
MaxVersions == 3
\* Number of shards of the state K/V store.
NumShards == 2

(***************************************************************************)
(* Program constants.                                                      *)
(***************************************************************************)
MAX_COMMIT_PROGRESS_DIFFERENCE == 100000

(***************************************************************************)
(* Values of the data model.                                               *)
(***************************************************************************)
\* Two state keys whose shard ids collide when NumShards = 2, so that one
\* shard holds the entries of more than one key.  Key 1 is the key "A" of
\* the end-to-end example.
Keys == {1, 3}
\* Live state values; None is Option::None, i.e. a tombstone in a value set.
Values == {1, 2}
None == 0
ValueOpts == Values \cup {None}

\* StateKey::size and StateValue::size.
KeySize(key) == key
ValueSize(value) == value

\* StateKey::get_shard_id: a pure function of the key.
get_shard_id(key) == key % NumShards
Shards == 0 .. (NumShards - 1)

\* StateStorageUsage: Tracked {items, bytes} or Untracked.
Untracked == [items |-> -1, bytes |-> -1]
Usage(i, b) == [items |-> i, bytes |-> b]
UsageZero == Usage(0, 0)
is_untracked(u) == u = Untracked

\* StateStorageUsage::add_item / remove_item: no-ops on Untracked.
add_item(u, bytes_delta) ==
    IF is_untracked(u) THEN u
    ELSE Usage(u.items + 1, u.bytes + bytes_delta)

remove_item(u, bytes_delta) ==
    IF is_untracked(u) THEN u
    ELSE Usage(u.items - 1, u.bytes - bytes_delta)

\* The values the callers of the model write for a key: key 1 takes both
\* live values, key 3 one, and either may be deleted.
WrittenValues(key) == IF key = 1 THEN ValueOpts ELSE {None, 1}

\* A value set of one version: HashMap<StateKey, Option<StateValue>>.
ValueSets ==
    UNION {{kvs \in [S -> ValueOpts] : \A k \in S : kvs[k] \in WrittenValues(k)} :
              S \in SUBSET Keys}

\* The expected usages a caller passes in.
ExpectedUsages == {Untracked, UsageZero, Usage(1, 2)}

\* The first versions a caller of the model may start a store history at.
StartVersions == {0, 10}

VARIABLES
    state_kv_db,        \* StateValueSchema rows of all shards: [key, version, value]
    stale_index_db,     \* StaleStateValueIndexSchema rows: [stale_since_version, version, state_key]
    version_data,       \* VersionDataSchema of the ledger db: version -> usage
    ledger_batch,       \* the caller's SchemaBatch: version -> usage
    sharded_state_kv_batches, \* shard -> [values: rows, stale: rows]
    put_result,         \* result of the put_value_sets call in progress
    put_call,           \* its arguments [first_version, value_state_sets, expected_usage]
    overall_commit_progress,   \* DbMetadataKey::OverallCommitProgress, or NoProgress
    ledger_commit_progress,    \* DbMetadataKey::LedgerCommitProgress
    state_kv_commit_progress,  \* DbMetadataKey::StateKvCommitProgress
    sync_result,        \* outcome of sync_commit_progress
    sync_call,          \* its argument, the progress it found and the stores it truncated
    ledger_txns,        \* TransactionInfoSchema and WriteSetSchema of the ledger db:
                        \* version -> [write_set, is_state_checkpoint]
    state_merkle_db,    \* the persisted Jellyfish Merkle trees: snapshot version -> leaves
    buffered_state,     \* StateStore.buffered_state, or NoBufferedState before it is built
    startup,            \* StateStore::new in progress: [pc, sync_runs, hack_for_tests, result]
    create_call,        \* the last reconstruction of the buffered state: its caller,
                        \* arguments, the snapshots it found and what it returned
    query,              \* the last read served: [op, ...arguments, result]
    restore_db,         \* the stores of a node under restore: [state_kv, metadata,
                        \* version_data, state_merkle]
    receiver,           \* the StateSnapshotRestore session of that node, or NoReceiver
    transfer,           \* the driver of the restore: what it exported and delivered
    lock,               \* the thread that holds the buffered_state Mutex, or NoThread
    thread_state,       \* thread -> [pc, created, seen, holder]: where the thread is,
                        \* the buffered state its reset built, and the buffered state
                        \* and the holder of the Mutex when it was built
    stream,             \* one raw_datastream request of the indexer data service: the
                        \* task that serves it, its response channel, and the cache
                        \* and file store it reads
    sanitize_call,      \* a call of SafetyRulesConfig::sanitize: [node_role, chain_id,
                        \* safety_rules, result]
    io_pool             \* the IO_POOL scope of put_stats_and_indices: the lookups
                        \* spawned and not yet run, those that read and did not yet
                        \* insert, and the DashMap cache they fill

vars == <<state_kv_db, stale_index_db, version_data, ledger_batch,
          sharded_state_kv_batches, put_result, put_call,
          overall_commit_progress, ledger_commit_progress,
          state_kv_commit_progress, sync_result, sync_call,
          ledger_txns, state_merkle_db, buffered_state, startup,
          create_call, query, restore_db, receiver, transfer, lock, thread_state,
          stream, sanitize_call, io_pool>>

storeVars == <<state_kv_db, stale_index_db, version_data>>
batchVars == <<ledger_batch, sharded_state_kv_batches>>
progressVars == <<overall_commit_progress, ledger_commit_progress,
                  state_kv_commit_progress>>
syncVars == <<sync_result, sync_call>>
treeVars == <<ledger_txns, state_merkle_db>>
bufferVars == <<buffered_state, startup, create_call, query>>
\* What the commit path and a bare sync_commit_progress leave alone.
restoreVars == <<restore_db, receiver, transfer>>
threadVars == <<lock, thread_state>>
serviceVars == <<stream, sanitize_call, io_pool>>
idleVars == <<restoreVars, threadVars, serviceVars>>
laterVars == <<state_merkle_db, bufferVars, idleVars>>

\* A commit progress marker that is not stored (Option::None).
NoProgress == -1

\* The empty map (no rows).
EmptyMap == [x \in {} |-> 0]
EmptyShardBatch == [values |-> {}, stale |-> {}]
EmptyBatches == [s \in Shards |-> EmptyShardBatch]
NoSync == [crash_if_difference_is_too_large |-> FALSE,
           ledger_before |-> NoProgress, state_kv_before |-> NoProgress,
           truncated_ledger |-> FALSE, truncated_state_kv |-> FALSE]
NoBufferedState == [built |-> FALSE]
NotStarted == [pc |-> 0, sync_runs |-> 0, hack_for_tests |-> FALSE, result |-> "none"]
NoCreate == [op |-> "none"]
NoQuery == [op |-> "none"]
EmptyStores == [state_kv |-> {}, metadata |-> EmptyMap, version_data |-> EmptyMap,
                state_merkle |-> EmptyMap]
NoReceiver == [open |-> FALSE]
NoChunk == [result |-> "none"]
NoTransfer == [version |-> -1, chunk_size |-> 0, next_index |-> 0, acked_index |-> 0,
               sent |-> {}, redelivered |-> FALSE, in_flight |-> NoChunk,
               kv_done |-> FALSE, tree_done |-> FALSE, exhausted |-> FALSE,
               crashes |-> 0, last_written |-> NoChunk]
NumThreads == 2
Threads == 1 .. NumThreads
NoThread == 0
IdleThread == [pc |-> "idle", created |-> NoBufferedState, seen |-> NoBufferedState,
               holder |-> NoThread]
\* No storage read fails; the reads of put_stats_and_indices that may fail:
\* the usage of the base version and the state value of a key of the batch.
NoFault == [read |-> "none"]
ReadFaults ==
    {[read |-> "get_usage"]} \cup {[read |-> "get_state_value", key |-> k] : k \in Keys}
NoStream == [pc |-> "none"]
NoSanitize == [result |-> "none"]
NoPool == [pc |-> "none"]
NoCall == [first_version |-> 0, value_state_sets |-> <<>>, expected_usage |-> Untracked,
           fault |-> NoFault]

(***************************************************************************)
(* Point reads.                                                            *)
(***************************************************************************)
\* Order of the StateValueSchema rows of a shard: by key, then by version
\* descending (newer rows first).
RowLE(k1, v1, k2, v2) == k1 < k2 \/ (k1 = k2 /\ v1 >= v2)

\* The seek with a slip: without prefix_same_as_start the iterator runs on
\* into the rows of the next key of the shard.
SeekNextAcrossKeys(rows, state_key, version) ==
    LET shard == {r \in rows : get_shard_id(r.key) = get_shard_id(state_key)}
        after == {r \in shard : RowLE(state_key, version, r.key, r.version)}
    IN  {r \in after :
            \A o \in after : RowLE(r.key, r.version, o.key, o.version)}

\* iter.seek(&(state_key, version)) followed by iter.next() on the shard of
\* state_key with prefix_same_as_start: the first row at or after
\* (state_key, version), or no row when that row belongs to another key.
\* The result is a set holding at most one row.
SeekNext(rows, state_key, version) ==
    LET shard == {r \in rows : get_shard_id(r.key) = get_shard_id(state_key)}
        after == {r \in shard : RowLE(state_key, version, r.key, r.version)}
        first == {r \in after :
                    \A o \in after : RowLE(r.key, r.version, o.key, o.version)}
    IN  {r \in first : r.key = state_key}

\* The read with a slip: a tombstone is skipped and the read falls through
\* to the newest live value of the key at or before the version.
ReadSkippingTombstones(rows, state_key, version) ==
    {[version |-> r.version, value |-> r.value] :
        r \in SeekNext({x \in rows : x.value /= None}, state_key, version)}

\* StateDb::get_state_value_with_version_by_version: Option<(Version, StateValue)>
\* as a set holding at most one [version, value].
get_state_value_with_version_by_version(rows, state_key, version) ==
    {[version |-> r.version, value |-> r.value] :
        r \in {x \in SeekNext(rows, state_key, version) : x.value /= None}}

\* StateDb::get_state_value_by_version: the value, or None.
get_state_value_by_version(rows, state_key, version) ==
    LET found == get_state_value_with_version_by_version(rows, state_key, version)
    IN  IF found = {} THEN None ELSE (CHOOSE f \in found : TRUE).value

\* get_state_storage_usage with a slip: a version with no VersionData row
\* yields zero usage like no version.
GetUsageOrZero(vdata, version) ==
    IF version >= 0 /\ version \in DOMAIN vdata THEN {vdata[version]}
    ELSE {UsageZero}

\* StateDb::get_state_storage_usage: zero for no version, NotFound (here the
\* empty set) when the version has no VersionData row.
get_state_storage_usage(vdata, version) ==
    IF version < 0 THEN {UsageZero}
    ELSE IF version \in DOMAIN vdata THEN {vdata[version]}
    ELSE {}

(***************************************************************************)
(* put_stats_and_indices.                                                  *)
(***************************************************************************)

\* The cache with a slip: it is not primed from the store, so every key
\* starts with no value.
PrimeCacheWithoutLookups(rows, key_set, base_version) ==
    [key \in key_set |-> [version |-> base_version, value |-> None]]

\* The DashMap cache, primed for every key the batch touches with the key's
\* last value at or before base_version: (version, Some(value)) when the
\* lookup finds a live value, (base_version, None) otherwise.  The lookups
\* of distinct keys are independent, so the order the pool runs them in
\* does not show in the result.
PrimeCache(rows, key_set, base_version) ==
    [key \in key_set |->
        LET found == get_state_value_with_version_by_version(rows, key, base_version)
        IN  IF found /= {} THEN CHOOSE f \in found : TRUE
            ELSE [version |-> base_version, value |-> None]]

\* batch.put::<StaleStateValueIndexSchema> into the shard of the key.
PutStaleIndex(batches, stale_since_version, version, state_key) ==
    [batches EXCEPT ![get_shard_id(state_key)].stale =
        @ \cup {[stale_since_version |-> stale_since_version,
                 version |-> version, state_key |-> state_key]}]

\* Putting a state value with a slip: the shard is chosen by the version.
PutStateValueByVersion(batches, state_key, version, value) ==
    [batches EXCEPT ![version % NumShards].values =
        @ \cup {[key |-> state_key, version |-> version, value |-> value]}]

\* batch.put::<StateValueSchema> into the shard of the key.
PutStateValue(batches, state_key, version, value) ==
    [batches EXCEPT ![get_shard_id(state_key)].values =
        @ \cup {[key |-> state_key, version |-> version, value |-> value]}]

\* cache.insert(key, (version, value)): the new cache.
CacheInsert(cache, key, version, value) ==
    [k \in DOMAIN cache \cup {key} |->
        IF k = key THEN [version |-> version, value |-> value] ELSE cache[k]]

\* ProcessKey with a slip: the size of the old value is not taken off the
\* usage.
ProcessKeyKeepsOldUsage(acc, key, value, version) ==
    LET usage1 == IF value /= None
                  THEN add_item(acc.usage, KeySize(key) + ValueSize(value))
                  ELSE acc.usage
        batches1 == IF value /= None THEN acc.batches
                    ELSE PutStaleIndex(acc.batches, version, version, key)
        hasOld == key \in DOMAIN acc.cache /\ acc.cache[key].value /= None
        old == acc.cache[key]
    IN  [usage   |-> usage1,
         cache   |-> CacheInsert(acc.cache, key, version, value),
         batches |-> IF hasOld
                     THEN PutStaleIndex(batches1, version, old.version, key)
                     ELSE batches1]

\* ProcessKey with a slip: an old tombstone gets a stale index like an old
\* value.
ProcessKeyIndexesOldTombstone(acc, key, value, version) ==
    LET usage1 == IF value /= None
                  THEN add_item(acc.usage, KeySize(key) + ValueSize(value))
                  ELSE acc.usage
        batches1 == IF value /= None THEN acc.batches
                    ELSE PutStaleIndex(acc.batches, version, version, key)
        inCache == key \in DOMAIN acc.cache
        hasOld == inCache /\ acc.cache[key].value /= None
        old == acc.cache[key]
    IN  [usage   |-> IF hasOld
                     THEN remove_item(usage1, KeySize(key) + ValueSize(old.value))
                     ELSE usage1,
         cache   |-> CacheInsert(acc.cache, key, version, value),
         batches |-> IF inCache
                     THEN PutStaleIndex(batches1, version, old.version, key)
                     ELSE batches1]

\* ProcessKey with a slip: the cache keeps the value from before the batch,
\* so a later write of the batch supersedes that one.
ProcessKeyKeepsCache(acc, key, value, version) ==
    LET usage1 == IF value /= None
                  THEN add_item(acc.usage, KeySize(key) + ValueSize(value))
                  ELSE acc.usage
        batches1 == IF value /= None THEN acc.batches
                    ELSE PutStaleIndex(acc.batches, version, version, key)
        hasOld == key \in DOMAIN acc.cache /\ acc.cache[key].value /= None
        old == acc.cache[key]
    IN  [usage   |-> IF hasOld
                     THEN remove_item(usage1, KeySize(key) + ValueSize(old.value))
                     ELSE usage1,
         cache   |-> acc.cache,
         batches |-> IF hasOld
                     THEN PutStaleIndex(batches1, version, old.version, key)
                     ELSE batches1]

\* ProcessKey with a slip: the tombstone gets its stale index only when it
\* deletes a live value.
ProcessKeyIndexesTombstoneOfLiveKey(acc, key, value, version) ==
    LET usage1 == IF value /= None
                  THEN add_item(acc.usage, KeySize(key) + ValueSize(value))
                  ELSE acc.usage
        hasOld == key \in DOMAIN acc.cache /\ acc.cache[key].value /= None
        old == acc.cache[key]
        batches1 == IF value /= None \/ ~ hasOld THEN acc.batches
                    ELSE PutStaleIndex(acc.batches, version, version, key)
    IN  [usage   |-> IF hasOld
                     THEN remove_item(usage1, KeySize(key) + ValueSize(old.value))
                     ELSE usage1,
         cache   |-> CacheInsert(acc.cache, key, version, value),
         batches |-> IF hasOld
                     THEN PutStaleIndex(batches1, version, old.version, key)
                     ELSE batches1]

\* The body of the inner loop for one (key, value) of the value set of
\* `version`.  acc = [usage, cache, batches].
ProcessKey(acc, key, value, version) ==
    LET usage1 == IF value /= None
                  THEN add_item(acc.usage, KeySize(key) + ValueSize(value))
                  ELSE acc.usage
        \* stale index of the tombstone at current version.
        batches1 == IF value /= None THEN acc.batches
                    ELSE PutStaleIndex(acc.batches, version, version, key)
        \* what cache.insert returns, kept when the old value is Some.
        hasOld == key \in DOMAIN acc.cache /\ acc.cache[key].value /= None
        old == acc.cache[key]
    IN  [usage   |-> IF hasOld
                     THEN remove_item(usage1, KeySize(key) + ValueSize(old.value))
                     ELSE usage1,
         cache   |-> CacheInsert(acc.cache, key, version, value),
         \* stale index of the old value at its version.
         batches |-> IF hasOld
                     THEN PutStaleIndex(batches1, version, old.version, key)
                     ELSE batches1]

\* for (key, value) in kvs.iter(): the keys of one value set, one after the
\* other.  A key occurs once in a value set and the steps of distinct keys
\* commute, so the iteration order of the HashMap does not show.
RECURSIVE ProcessKeys(_, _, _, _)
ProcessKeys(acc, kvs, keys, version) ==
    IF keys = {} THEN acc
    ELSE LET key == CHOOSE k \in keys : \A o \in keys : k <= o
         IN  ProcessKeys(ProcessKey(acc, key, kvs[key], version),
                         kvs, keys \ {key}, version)

\* The outer loop from index idx on: after the keys of a version, its usage
\* goes to the ledger batch.  acc = [usage, cache, batches, ledger].
RECURSIVE ProcessVersions(_, _, _, _)

\* The outer loop with a slip: a version whose value set is empty gets no
\* usage record.
RECURSIVE ProcessVersionsSkippingEmpty(_, _, _, _)
ProcessVersionsSkippingEmpty(acc, value_state_sets, first_version, idx) ==
    IF idx > Len(value_state_sets) THEN acc
    ELSE LET version == first_version + (idx - 1)
             kvs == value_state_sets[idx]
             r == ProcessKeys([usage |-> acc.usage, cache |-> acc.cache,
                               batches |-> acc.batches],
                              kvs, DOMAIN kvs, version)
         IN  ProcessVersionsSkippingEmpty(
                 [usage |-> r.usage, cache |-> r.cache, batches |-> r.batches,
                  ledger |-> IF DOMAIN kvs = {} THEN acc.ledger
                             ELSE [v \in DOMAIN acc.ledger \cup {version} |->
                                     IF v = version THEN r.usage ELSE acc.ledger[v]]],
                 value_state_sets, first_version, idx + 1)

ProcessVersions(acc, value_state_sets, first_version, idx) ==
    IF idx > Len(value_state_sets) THEN acc
    ELSE LET version == first_version + (idx - 1)
             kvs == value_state_sets[idx]
             r == ProcessKeys([usage |-> acc.usage, cache |-> acc.cache,
                               batches |-> acc.batches],
                              kvs, DOMAIN kvs, version)
         IN  ProcessVersions(
                 [usage |-> r.usage, cache |-> r.cache, batches |-> r.batches,
                  ledger |-> [v \in DOMAIN acc.ledger \cup {version} |->
                                IF v = version THEN r.usage ELSE acc.ledger[v]]],
                 value_state_sets, first_version, idx + 1)

\* The keys of all value sets of the batch.
KeySet(value_state_sets) ==
    UNION {DOMAIN value_state_sets[i] : i \in 1 .. Len(value_state_sets)}

\* The check with a slip: only the item counts are compared.
UsageCheckOnItems(expected_usage, usage) ==
    is_untracked(expected_usage) \/ expected_usage.items = usage.items

\* The ensure! at the end: the expected usage, when tracked, is the
\* computed one.
UsageCheckPasses(expected_usage, usage) ==
    is_untracked(expected_usage) \/ expected_usage = usage

\* put_stats_and_indices from the end of the IO_POOL scope on: the loops over
\* the versions and their keys, started with the usage of the base version
\* and the cache the lookups filled, then the check of the expected usage.
put_stats_and_indices_after_scope(cache, usage, value_state_sets, first_version, expected_usage, batch, batches) ==
    LET r == ProcessVersions([usage |-> usage, cache |-> cache,
                              batches |-> batches, ledger |-> batch],
                             value_state_sets, first_version, 1)
    IN  [result  |-> IF UsageCheckPasses(expected_usage, r.usage)
                     THEN "Ok" ELSE "UsageMismatch",
         ledger  |-> r.ledger,
         batches |-> r.batches,
         usage   |-> r.usage]

\* StateStore::put_stats_and_indices on the store (rows, vdata) and the
\* caller's batches: [result, ledger, batches, usage].
put_stats_and_indices(rows, vdata, value_state_sets, first_version, expected_usage, batch, batches) ==
    LET base_version == first_version - 1   \* checked_sub: below 0 is None
        base == get_state_storage_usage(vdata, base_version)
    IN  IF base = {}
        THEN [result |-> "NotFound", ledger |-> batch, batches |-> batches,
              usage |-> Untracked]
        ELSE put_stats_and_indices_after_scope(
                 IF base_version >= 0
                 THEN PrimeCache(rows, KeySet(value_state_sets), base_version)
                 ELSE EmptyMap,
                 CHOOSE u \in base : TRUE,
                 value_state_sets, first_version, expected_usage, batch, batches)

\* The puts of put_value_sets after put_stats_and_indices: every (key, value)
\* of the value set at index idx goes to the shard of its key at version
\* first_version + idx.
RECURSIVE PutValues(_, _, _, _)
PutValues(batches, value_state_sets, first_version, todo) ==
    IF todo = {} THEN batches
    ELSE LET t == CHOOSE x \in todo : TRUE
         IN  PutValues(PutStateValue(batches, t[2], first_version + (t[1] - 1),
                                     value_state_sets[t[1]][t[2]]),
                       value_state_sets, first_version, todo \ {t})

\* put_value_sets with a slip: the error of put_stats_and_indices is kept
\* for the end and the state values are put first.
PutValueSetsThenFail(rows, vdata, value_state_sets, first_version, expected_usage, batch, batches) ==
    LET s == put_stats_and_indices(rows, vdata, value_state_sets, first_version,
                                   expected_usage, batch, batches)
        todo == {<<i, k>> \in (1 .. Len(value_state_sets)) \X Keys :
                    k \in DOMAIN value_state_sets[i]}
    IN  [s EXCEPT !.batches =
            PutValues(s.batches, value_state_sets, first_version, todo)]

\* StateStore::put_value_sets: an error of put_stats_and_indices returns at
\* once (the ? operator), before any state value is put.
put_value_sets(rows, vdata, value_state_sets, first_version, expected_usage, batch, batches) ==
    LET s == put_stats_and_indices(rows, vdata, value_state_sets, first_version,
                                   expected_usage, batch, batches)
        todo == {<<i, k>> \in (1 .. Len(value_state_sets)) \X Keys :
                    k \in DOMAIN value_state_sets[i]}
    IN  IF s.result /= "Ok" THEN s
        ELSE [s EXCEPT !.batches =
                PutValues(s.batches, value_state_sets, first_version, todo)]

(***************************************************************************)
(* The commit path as a state machine.                                     *)
(***************************************************************************)
\* The next version of the store: one past the latest version with usage.
NextVersion == IF DOMAIN version_data = {} THEN 0
               ELSE 1 + CHOOSE v \in DOMAIN version_data :
                            \A o \in DOMAIN version_data : o <= v

\* The versions a store history of the model may reach.
WithinBounds(first_version, n) ==
    \E s \in StartVersions : s <= first_version /\ first_version + n <= s + MaxVersions

\* The first versions a caller passes: the next version of the store; on a
\* store that holds no version yet, any start version.
FirstVersions == IF DOMAIN version_data = {} THEN StartVersions ELSE {NextVersion}

\* A call of put_value_sets on fresh batches.
PutValueSets ==
    /\ put_result = "none"
    /\ sync_result = "none"
    /\ \E first_version \in FirstVersions, n \in 1 .. MaxVersions :
         /\ WithinBounds(first_version, n)
         /\ \E value_state_sets \in [1 .. n -> ValueSets], expected_usage \in ExpectedUsages :
              LET r == put_value_sets(state_kv_db, version_data, value_state_sets,
                                      first_version, expected_usage,
                                      ledger_batch, sharded_state_kv_batches)
              IN  /\ put_result' = r.result
                  /\ ledger_batch' = r.ledger
                  /\ sharded_state_kv_batches' = r.batches
                  /\ put_call' = [first_version |-> first_version,
                                  value_state_sets |-> value_state_sets,
                                  expected_usage |-> expected_usage,
                                  fault |-> NoFault]
    /\ UNCHANGED <<storeVars, progressVars, syncVars, ledger_txns, laterVars>>

\* put_value_sets on a storage whose read `fault` returns an error.  With no
\* base version put_stats_and_indices reads nothing.  An error of get_usage
\* returns through the ? operator.  The lookups that prime the cache run on
\* IO_POOL and unwrap their result with expect("Must succeed."): an error of
\* one of them panics, and the scope carries the panic to its caller.  Both
\* happen before anything is put into the batches.
put_value_sets_with_fault(fault, rows, vdata, value_state_sets, first_version, expected_usage, batch, batches) ==
    LET base_version == first_version - 1
        untouched == [ledger |-> batch, batches |-> batches, usage |-> Untracked]
        no_fault == put_value_sets(rows, vdata, value_state_sets, first_version,
                                   expected_usage, batch, batches)
    IN  IF base_version < 0 THEN no_fault
        ELSE IF fault.read = "get_usage"
        THEN [result |-> "IoError"] @@ untouched
        ELSE IF get_state_storage_usage(vdata, base_version) = {} THEN no_fault
        ELSE IF fault.read = "get_state_value" /\ fault.key \in KeySet(value_state_sets)
        THEN [result |-> "Panic"] @@ untouched
        ELSE no_fault

\* A call of put_value_sets during which a storage read fails.
PutValueSetsOnFailingRead ==
    /\ put_result = "none"
    /\ sync_result = "none"
    /\ \E first_version \in FirstVersions \ {0}, n \in 1 .. MaxVersions :
         /\ WithinBounds(first_version, n)
         /\ \E value_state_sets \in [1 .. n -> ValueSets], expected_usage \in ExpectedUsages, fault \in ReadFaults :
              LET r == put_value_sets_with_fault(fault, state_kv_db, version_data,
                                                 value_state_sets, first_version,
                                                 expected_usage, ledger_batch,
                                                 sharded_state_kv_batches)
              IN  /\ put_result' = r.result
                  /\ ledger_batch' = r.ledger
                  /\ sharded_state_kv_batches' = r.batches
                  /\ put_call' = [first_version |-> first_version,
                                  value_state_sets |-> value_state_sets,
                                  expected_usage |-> expected_usage,
                                  fault |-> fault]
    /\ UNCHANGED <<storeVars, progressVars, syncVars, ledger_txns, laterVars>>

\* The caller after Ok: the ledger batch and the shard batches are written
\* to the stores.
CommitBatches ==
    /\ put_result = "Ok"
    /\ state_kv_db' = state_kv_db \cup
            UNION {sharded_state_kv_batches[s].values : s \in Shards}
    /\ stale_index_db' = stale_index_db \cup
            UNION {sharded_state_kv_batches[s].stale : s \in Shards}
    /\ version_data' = [v \in DOMAIN version_data \cup DOMAIN ledger_batch |->
                          IF v \in DOMAIN ledger_batch THEN ledger_batch[v]
                          ELSE version_data[v]]
    /\ ledger_batch' = EmptyMap
    /\ sharded_state_kv_batches' = EmptyBatches
    /\ put_result' = "none"
    /\ put_call' = NoCall
    /\ UNCHANGED <<progressVars, syncVars, ledger_txns, laterVars>>

\* The caller after an error: the batches are dropped, nothing is written.
DropBatches ==
    /\ put_result \in {"UsageMismatch", "NotFound", "IoError"}
    /\ ledger_batch' = EmptyMap
    /\ sharded_state_kv_batches' = EmptyBatches
    /\ put_result' = "none"
    /\ put_call' = NoCall
    /\ UNCHANGED <<storeVars, progressVars, syncVars, ledger_txns, laterVars>>

\* No restore under way and no thread at work.
InitIdle ==
    /\ restore_db = EmptyStores
    /\ receiver = NoReceiver
    /\ transfer = NoTransfer
    /\ lock = NoThread
    /\ thread_state = [t \in Threads |-> IdleThread]
    /\ stream = NoStream
    /\ sanitize_call = NoSanitize
    /\ io_pool = NoPool

\* A store that was not opened: no tree, no buffered state, no read served.
InitLater ==
    /\ state_merkle_db = EmptyMap
    /\ buffered_state = NoBufferedState
    /\ startup = NotStarted
    /\ create_call = NoCreate
    /\ query = NoQuery
    /\ InitIdle

\* What every store of the model starts with, but for its usage records.
InitRest ==
    /\ state_kv_db = {}
    /\ stale_index_db = {}
    /\ ledger_batch = EmptyMap
    /\ sharded_state_kv_batches = EmptyBatches
    /\ put_result = "none"
    /\ put_call = NoCall
    /\ overall_commit_progress = NoProgress
    /\ ledger_commit_progress = NoProgress
    /\ state_kv_commit_progress = NoProgress
    /\ sync_result = "none"
    /\ sync_call = NoSync
    /\ ledger_txns = EmptyMap
    /\ InitLater

\* A fresh store: no version committed.
Init ==
    /\ version_data = EmptyMap
    /\ InitRest

\* A store whose versions 0..9 were committed with empty value sets: its
\* state is empty and every version has a zero usage record.
InitAt10 ==
    /\ version_data = [v \in 0 .. 9 |-> UsageZero]
    /\ InitRest

Next == PutValueSets \/ CommitBatches \/ DropBatches

Spec == Init /\ [][Next]_vars

\* The commit path on either store.
SpecExample == (Init \/ InitAt10) /\ [][Next]_vars

\* The commit path on a storage whose reads may fail.  A call that panicked
\* does not return: the store takes no further step.
NextFaults == PutValueSets \/ PutValueSetsOnFailingRead \/ CommitBatches \/ DropBatches

SpecFaults == Init /\ [][NextFaults]_vars

(***************************************************************************)
(* The commit path with the lookups of the IO_POOL scope as tasks.         *)
(***************************************************************************)
\* What the scope leaves alone besides the stores and the markers.
notPoolVars == <<state_merkle_db, bufferVars, restoreVars, threadVars, stream,
                 sanitize_call>>

\* The body of a spawned task up to its insert: the pair the task puts into
\* the cache for its key, (version, Some(value)) or (base_version, None).
LookupTask(rows, key, base_version) ==
    LET found == get_state_value_with_version_by_version(rows, key, base_version)
    IN  IF found /= {} THEN CHOOSE f \in found : TRUE
        ELSE [version |-> base_version, value |-> None]

\* A scope with a slip: it returns while tasks are still at work.
ScopeReturnsEarly(pool) == TRUE

\* IO_POOL.scope returns when every task spawned in it has finished.
ScopeReturns(pool) == pool.spawned = {} /\ DOMAIN pool.found = {}

\* put_value_sets up to the scope: get_usage of the base version, whose error
\* returns at once, then one task per key of the batch when there is a base
\* version.
PutValueSetsSpawn ==
    /\ put_result = "none"
    /\ sync_result = "none"
    /\ io_pool.pc /= "scope"
    /\ \E first_version \in FirstVersions, n \in 1 .. MaxVersions :
         /\ WithinBounds(first_version, n)
         /\ \E value_state_sets \in [1 .. n -> ValueSets], expected_usage \in ExpectedUsages :
              LET base_version == first_version - 1
                  base == get_state_storage_usage(version_data, base_version)
              IN  /\ put_call' = [first_version |-> first_version,
                                  value_state_sets |-> value_state_sets,
                                  expected_usage |-> expected_usage,
                                  fault |-> NoFault]
                  /\ IF base = {}
                     THEN /\ put_result' = "NotFound"
                          /\ io_pool' = NoPool
                     ELSE /\ put_result' = "none"
                          /\ io_pool' = [pc |-> "scope",
                                         usage |-> CHOOSE u \in base : TRUE,
                                         spawned |-> IF base_version >= 0
                                                     THEN KeySet(value_state_sets)
                                                     ELSE {},
                                         found |-> EmptyMap,
                                         cache |-> EmptyMap]
    /\ UNCHANGED <<storeVars, batchVars, progressVars, syncVars, ledger_txns, notPoolVars>>

\* A worker of the pool runs the lookup of one spawned task.
PoolLookup ==
    /\ io_pool.pc = "scope"
    /\ \E key \in io_pool.spawned :
         io_pool' = [io_pool EXCEPT
                        !.spawned = @ \ {key},
                        !.found = [k \in DOMAIN @ \cup {key} |->
                                     IF k = key
                                     THEN LookupTask(state_kv_db, key,
                                                     put_call.first_version - 1)
                                     ELSE @[k]]]
    /\ UNCHANGED <<storeVars, batchVars, put_result, put_call, progressVars,
                   syncVars, ledger_txns, notPoolVars>>

\* A task that has read inserts its pair into the DashMap and ends.
PoolInsert ==
    /\ io_pool.pc = "scope"
    /\ \E key \in DOMAIN io_pool.found :
         io_pool' = [io_pool EXCEPT
                        !.found = [k \in DOMAIN @ \ {key} |-> @[k]],
                        !.cache = CacheInsert(@, key, io_pool.found[key].version,
                                              io_pool.found[key].value)]
    /\ UNCHANGED <<storeVars, batchVars, put_result, put_call, progressVars,
                   syncVars, ledger_txns, notPoolVars>>

\* The scope returns and put_value_sets runs to its end on the cache as the
\* tasks left it.
PutValueSetsJoin ==
    /\ io_pool.pc = "scope"
    /\ ScopeReturns(io_pool)
    /\ LET s == put_stats_and_indices_after_scope(
                    io_pool.cache, io_pool.usage, put_call.value_state_sets,
                    put_call.first_version, put_call.expected_usage,
                    ledger_batch, sharded_state_kv_batches)
           todo == {<<i, k>> \in (1 .. Len(put_call.value_state_sets)) \X Keys :
                       k \in DOMAIN put_call.value_state_sets[i]}
       IN  /\ put_result' = s.result
           /\ ledger_batch' = s.ledger
           /\ sharded_state_kv_batches' =
                  IF s.result /= "Ok" THEN s.batches
                  ELSE PutValues(s.batches, put_call.value_state_sets,
                                 put_call.first_version, todo)
    /\ io_pool' = [io_pool EXCEPT !.pc = "joined"]
    /\ UNCHANGED <<storeVars, put_call, progressVars, syncVars, ledger_txns, notPoolVars>>

NextPool ==
    \/ PutValueSetsSpawn \/ PoolLookup \/ PoolInsert \/ PutValueSetsJoin
    \/ CommitBatches \/ DropBatches

SpecPool == Init /\ [][NextPool]_vars

(***************************************************************************)
(* Crash recovery: sync_commit_progress.                                   *)
(***************************************************************************)
\* The stores and markers sync_commit_progress works on:
\* st = [overall, ledger, state_kv, vdata, txns, rows, stale, result,
\*       truncated_ledger, truncated_state_kv].

\* truncate_ledger_db to target_version: the rows of the versions after it
\* are deleted and the ledger commit progress becomes target_version.
truncate_ledger_db(st, target_version) ==
    [st EXCEPT !.vdata = [v \in {x \in DOMAIN st.vdata : x <= target_version} |->
                             st.vdata[v]],
               !.txns = [v \in {x \in DOMAIN st.txns : x <= target_version} |->
                            st.txns[v]],
               !.ledger = target_version,
               !.truncated_ledger = TRUE]

\* truncate_state_kv_db to target_version: the state values written after
\* it and the stale indices that start after it are deleted, and the state
\* K/V commit progress becomes target_version.
truncate_state_kv_db(st, target_version) ==
    [st EXCEPT !.rows = {r \in st.rows : r.version <= target_version},
               !.stale = {e \in st.stale : e.stale_since_version <= target_version},
               !.state_kv = target_version,
               !.truncated_state_kv = TRUE]

\* The check with a slip: a difference equal to the bound is refused.
DifferenceBelowBound(crash_if_difference_is_too_large, difference) ==
    crash_if_difference_is_too_large => difference < MAX_COMMIT_PROGRESS_DIFFERENCE

\* The check with a slip: the flag is not looked at.
DifferenceCheckedAlways(crash_if_difference_is_too_large, difference) ==
    difference <= MAX_COMMIT_PROGRESS_DIFFERENCE

\* if crash_if_difference_is_too_large { assert_le!(difference, MAX_...) }:
\* whether the run goes on.
DifferenceAllowed(crash_if_difference_is_too_large, difference) ==
    crash_if_difference_is_too_large => difference <= MAX_COMMIT_PROGRESS_DIFFERENCE

\* The ledger part: a ledger db ahead of the overall progress is truncated.
SyncLedger(st, crash_if_difference_is_too_large) ==
    IF st.ledger /= st.overall
    THEN LET difference == st.ledger - st.overall
         IN  IF ~ DifferenceAllowed(crash_if_difference_is_too_large, difference)
             THEN [st EXCEPT !.result = "Panic"]
             ELSE truncate_ledger_db(st, st.overall)
    ELSE st

\* The state K/V part with a slip: the test reads the ledger progress.
SyncStateKvOnLedgerProgress(st, crash_if_difference_is_too_large) ==
    IF st.ledger /= st.overall
    THEN LET difference == st.state_kv - st.overall
         IN  IF ~ DifferenceAllowed(crash_if_difference_is_too_large, difference)
             THEN [st EXCEPT !.result = "Panic"]
             ELSE truncate_state_kv_db(st, st.overall)
    ELSE st

\* The state K/V part: a state K/V db ahead of the overall progress is
\* truncated.
SyncStateKv(st, crash_if_difference_is_too_large) ==
    IF st.state_kv /= st.overall
    THEN LET difference == st.state_kv - st.overall
         IN  IF ~ DifferenceAllowed(crash_if_difference_is_too_large, difference)
             THEN [st EXCEPT !.result = "Panic"]
             ELSE truncate_state_kv_db(st, st.overall)
    ELSE st

\* .expect("... cannot be None") and assert_ge!(progress, overall): whether
\* the run goes on.
ProgressAtLeastOverall(progress, overall) ==
    progress /= NoProgress /\ progress >= overall

\* sync_commit_progress with a slip: the state K/V progress is read and
\* checked after the ledger db was truncated.
SyncChecksStateKvLate(st, crash_if_difference_is_too_large) ==
    IF st.overall = NoProgress THEN [st EXCEPT !.result = "Ok"]
    ELSE IF ~ ProgressAtLeastOverall(st.ledger, st.overall)
    THEN [st EXCEPT !.result = "Panic"]
    ELSE LET s1 == SyncLedger([st EXCEPT !.result = "Ok"],
                              crash_if_difference_is_too_large)
         IN  IF s1.result = "Panic" THEN s1
             ELSE IF ~ ProgressAtLeastOverall(st.state_kv, st.overall)
             THEN [s1 EXCEPT !.result = "Panic"]
             ELSE SyncStateKv(s1, crash_if_difference_is_too_large)

\* sync_commit_progress with a slip: the ledger and state K/V progress are
\* read and checked before the overall progress is looked at.
SyncChecksBeforeOverall(st, crash_if_difference_is_too_large) ==
    IF ~ ProgressAtLeastOverall(st.ledger, st.overall)
    THEN [st EXCEPT !.result = "Panic"]
    ELSE IF ~ ProgressAtLeastOverall(st.state_kv, st.overall)
    THEN [st EXCEPT !.result = "Panic"]
    ELSE IF st.overall = NoProgress THEN [st EXCEPT !.result = "Ok"]
    ELSE LET s1 == SyncLedger([st EXCEPT !.result = "Ok"],
                              crash_if_difference_is_too_large)
         IN  IF s1.result = "Panic" THEN s1
             ELSE SyncStateKv(s1, crash_if_difference_is_too_large)

\* sync_commit_progress with a slip: the state K/V part runs before the
\* ledger part.
SyncStateKvBeforeLedger(st, crash_if_difference_is_too_large) ==
    IF st.overall = NoProgress THEN [st EXCEPT !.result = "Ok"]
    ELSE IF ~ ProgressAtLeastOverall(st.ledger, st.overall)
    THEN [st EXCEPT !.result = "Panic"]
    ELSE IF ~ ProgressAtLeastOverall(st.state_kv, st.overall)
    THEN [st EXCEPT !.result = "Panic"]
    ELSE LET s1 == SyncStateKv([st EXCEPT !.result = "Ok"],
                               crash_if_difference_is_too_large)
         IN  IF s1.result = "Panic" THEN s1
             ELSE SyncLedger(s1, crash_if_difference_is_too_large)

\* StateStore::sync_commit_progress: st when it returns ("Ok") or panics.
sync_commit_progress(st, crash_if_difference_is_too_large) ==
    IF st.overall = NoProgress THEN [st EXCEPT !.result = "Ok"]
    ELSE IF ~ ProgressAtLeastOverall(st.ledger, st.overall)
    THEN [st EXCEPT !.result = "Panic"]
    ELSE IF ~ ProgressAtLeastOverall(st.state_kv, st.overall)
    THEN [st EXCEPT !.result = "Panic"]
    ELSE LET s1 == SyncLedger([st EXCEPT !.result = "Ok"],
                              crash_if_difference_is_too_large)
         IN  IF s1.result = "Panic" THEN s1
             ELSE SyncStateKv(s1, crash_if_difference_is_too_large)

\* sync_commit_progress applied to the stores and markers.
SyncStores(crash_if_difference_is_too_large) ==
         LET st == sync_commit_progress(
                      [overall |-> overall_commit_progress,
                       ledger |-> ledger_commit_progress,
                       state_kv |-> state_kv_commit_progress,
                       vdata |-> version_data, txns |-> ledger_txns,
                       rows |-> state_kv_db,
                       stale |-> stale_index_db, result |-> "none",
                       truncated_ledger |-> FALSE, truncated_state_kv |-> FALSE],
                      crash_if_difference_is_too_large)
         IN  /\ sync_result' = st.result
             /\ ledger_commit_progress' = st.ledger
             /\ state_kv_commit_progress' = st.state_kv
             /\ version_data' = st.vdata
             /\ ledger_txns' = st.txns
             /\ state_kv_db' = st.rows
             /\ stale_index_db' = st.stale
             /\ sync_call' = [crash_if_difference_is_too_large |->
                                  crash_if_difference_is_too_large,
                              ledger_before |-> ledger_commit_progress,
                              state_kv_before |-> state_kv_commit_progress,
                              truncated_ledger |-> st.truncated_ledger,
                              truncated_state_kv |-> st.truncated_state_kv]

\* A call of sync_commit_progress on the stores as a crash left them.
SyncCommitProgress ==
    /\ sync_result = "none"
    /\ put_result = "none"
    /\ \E crash_if_difference_is_too_large \in BOOLEAN :
          SyncStores(crash_if_difference_is_too_large)
    /\ UNCHANGED <<overall_commit_progress, batchVars, put_result, put_call, laterVars>>

\* The stores a crash can leave behind.  The overall progress is written
\* last, so the ledger db and the state K/V db may hold versions after it;
\* the differences cover none, a few versions, the bound, one more than the
\* bound and twice the bound, and a store behind the overall progress.
OverallProgresses == {NoProgress, 0, 100}
ProgressDifferences ==
    {-1, 0, 3, 5, MAX_COMMIT_PROGRESS_DIFFERENCE,
     MAX_COMMIT_PROGRESS_DIFFERENCE + 1, 2 * MAX_COMMIT_PROGRESS_DIFFERENCE}
StoreProgresses(overall) ==
    IF overall = NoProgress THEN {NoProgress, 0, 5}
    ELSE {NoProgress} \cup {p \in {overall + d : d \in ProgressDifferences} : p >= 0}

\* The versions of the model that hold rows in a store at `progress`: the
\* overall progress, the version after it and the store's own progress.
VersionsUpTo(overall, progress) ==
    {v \in {overall, overall + 1, progress} : 0 <= v /\ v <= progress}

\* Key 1 was written with value 1 at every such version: each write but the
\* last has a stale index, and the usage is one item.
CrashVersionData(overall, ledger) ==
    [v \in VersionsUpTo(overall, ledger) |-> Usage(1, KeySize(1) + ValueSize(1))]
CrashRows(overall, state_kv) ==
    {[key |-> 1, version |-> v, value |-> 1] : v \in VersionsUpTo(overall, state_kv)}
CrashStale(overall, state_kv) ==
    {[stale_since_version |-> s, version |-> v, state_key |-> 1] :
        <<s, v>> \in {<<a, b>> \in VersionsUpTo(overall, state_kv) \X
                                   VersionsUpTo(overall, state_kv) :
                         /\ b < a
                         /\ \A c \in VersionsUpTo(overall, state_kv) :
                               c <= b \/ c >= a}}

InitRecovery ==
    /\ overall_commit_progress \in OverallProgresses
    /\ ledger_commit_progress \in StoreProgresses(overall_commit_progress)
    /\ state_kv_commit_progress \in StoreProgresses(overall_commit_progress)
    /\ version_data = CrashVersionData(overall_commit_progress, ledger_commit_progress)
    /\ state_kv_db = CrashRows(overall_commit_progress, state_kv_commit_progress)
    /\ stale_index_db = CrashStale(overall_commit_progress, state_kv_commit_progress)
    /\ ledger_batch = EmptyMap
    /\ sharded_state_kv_batches = EmptyBatches
    /\ put_result = "none"
    /\ put_call = NoCall
    /\ sync_result = "none"
    /\ sync_call = NoSync
    /\ ledger_txns = EmptyMap
    /\ InitLater

NextRecovery == SyncCommitProgress

SpecRecovery == InitRecovery /\ [][NextRecovery]_vars

(***************************************************************************)
(* The state tree, the ledger and the buffered state.                      *)
(***************************************************************************)
\* Option::None of a version.
NoVersion == -1

\* CryptoHash of a state key: one hash per key, in another order than the
\* keys (key 3 sorts before key 1, key 4 after both).
KeyHash(key) == (key * 5) % 7
\* CryptoHash of a state value.
ValueHash(value) == 100 + value

\* The value a value hash stands for, as the cached state view reads it.
ValueOfHash(hash) == CHOOSE value \in Values : ValueHash(value) = hash

\* A leaf of the Jellyfish Merkle tree: the key hash, the value hash and the
\* (key, version) under which the value is stored in the state K/V db.
Leaf(key, version, value) ==
    [key_hash |-> KeyHash(key), value_hash |-> ValueHash(value),
     key |-> key, version |-> version]

\* The root hash of a tree: a function of the key hashes and value hashes of
\* its leaves and of nothing else.
RootHash(leaves) == {<<l.key_hash, l.value_hash>> : l \in leaves}
SPARSE_MERKLE_PLACEHOLDER_HASH == RootHash({})

\* StateMerkleDb::get_state_snapshot_version_before: the greatest version
\* with a persisted tree that is less than next_version (a set holding at
\* most one version).
get_state_snapshot_version_before(merkle, next_version) ==
    {v \in DOMAIN merkle : v < next_version /\
                           \A o \in DOMAIN merkle : o < next_version => o <= v}

\* StateMerkleDb::get_root_hash: the root hash of the tree of `version`, or
\* an error (here the empty set) when no tree is persisted there.
get_root_hash(merkle, version) ==
    IF version \in DOMAIN merkle THEN {RootHash(merkle[version])} ELSE {}

\* get_state_snapshot_before with a slip: the root hash is looked up at
\* next_version - 1 instead of at the version found.
SnapshotBeforeHashedAtPrevious(merkle, next_version) ==
    LET found == get_state_snapshot_version_before(merkle, next_version)
    IN  IF found = {} THEN [result |-> "Ok", value |-> {}]
        ELSE LET root == get_root_hash(merkle, next_version - 1)
             IN  IF root = {} THEN [result |-> "Err", value |-> {}]
                 ELSE [result |-> "Ok",
                       value |-> {[version |-> CHOOSE v \in found : TRUE,
                                   root_hash |-> CHOOSE h \in root : TRUE]}]

\* DbReader::get_state_snapshot_before: Ok(None), Ok(Some((ver, root))) or
\* the error of get_root_hash.
get_state_snapshot_before(merkle, next_version) ==
    LET found == get_state_snapshot_version_before(merkle, next_version)
    IN  IF found = {} THEN [result |-> "Ok", value |-> {}]
        ELSE LET ver == CHOOSE v \in found : TRUE
                 root == get_root_hash(merkle, ver)
             IN  IF root = {} THEN [result |-> "Err", value |-> {}]
                 ELSE [result |-> "Ok",
                       value |-> {[version |-> ver,
                                   root_hash |-> CHOOSE h \in root : TRUE]}]

\* The state-checkpoint transactions need at least this policy-set distance
\* between snapshots and this many snapshots in flight; both are constants
\* of the buffered_state module, small here so that a ledger of the model
\* reaches the bound computed from them.
TARGET_SNAPSHOT_INTERVAL_IN_VERSION == 1
ASYNC_COMMIT_CHANNEL_BUFFER_SIZE == 1

MAX_WRITE_SETS_AFTER_SNAPSHOT ==
    TARGET_SNAPSHOT_INTERVAL_IN_VERSION * (ASYNC_COMMIT_CHANNEL_BUFFER_SIZE + 2 + 1) * 2

\* LedgerStore::get_latest_transaction_info_option mapped to version + 1.
NumTransactions(txns) ==
    IF DOMAIN txns = {} THEN 0
    ELSE 1 + CHOOSE v \in DOMAIN txns : \A o \in DOMAIN txns : o <= v

\* The in-memory state (sparse Merkle tree and usage) after one write set is
\* applied at `version`: a written key loses its leaf and, unless the write
\* is a deletion, gets the leaf of the new value.
RECURSIVE ApplyWrites(_, _, _, _)
ApplyWrites(state, write_set, keys, version) ==
    IF keys = {} THEN state
    ELSE LET key == CHOOSE k \in keys : \A o \in keys : k <= o
             value == write_set[key]
             old == {l \in state.leaves : l.key = key}
             removed == IF old = {} THEN state.usage
                        ELSE remove_item(state.usage,
                                 KeySize(key) +
                                 ValueSize(ValueOfHash((CHOOSE l \in old : TRUE).value_hash)))
             added == IF value = None THEN removed
                      ELSE add_item(removed, KeySize(key) + ValueSize(value))
             leaves == (state.leaves \ old) \cup
                       (IF value = None THEN {} ELSE {Leaf(key, version, value)})
         IN  ApplyWrites([leaves |-> leaves, usage |-> added], write_set,
                         keys \ {key}, version)

\* InMemoryStateCalculator over the write sets of the versions first..last.
RECURSIVE ReplayWriteSets(_, _, _, _)
ReplayWriteSets(state, txns, first, last) ==
    IF first > last THEN state
    ELSE ReplayWriteSets(ApplyWrites(state, txns[first].write_set,
                                     DOMAIN txns[first].write_set, first),
                         txns, first + 1, last)

\* StateDelta::new_at_checkpoint and BufferedState::new: base and current
\* are the same state.
NewAtCheckpoint(leaves, usage, version) ==
    [built |-> TRUE, base_version |-> version, base |-> RootHash(leaves),
     current_version |-> version, current |-> RootHash(leaves),
     current_leaves |-> leaves, current_usage |-> usage]

\* The index of the last state checkpoint among the replayed transactions
\* taken with a slip: the first one is taken.
FirstCheckpointIndex(txns, snapshot_next_version, num_transactions) ==
    LET idxs == {i \in 0 .. (num_transactions - snapshot_next_version - 1) :
                    txns[snapshot_next_version + i].is_state_checkpoint}
    IN  IF idxs = {} THEN {} ELSE {CHOOSE i \in idxs : \A o \in idxs : i <= o}

\* enumerate().filter(is_state_checkpoint).last().map(idx): the index of the
\* last state checkpoint among the replayed transactions, if any.
last_checkpoint_index(txns, snapshot_next_version, num_transactions) ==
    LET idxs == {i \in 0 .. (num_transactions - snapshot_next_version - 1) :
                    txns[snapshot_next_version + i].is_state_checkpoint}
    IN  IF idxs = {} THEN {} ELSE {CHOOSE i \in idxs : \A o \in idxs : o <= i}

\* BufferedState::update(updates_until_last_checkpoint, state_after, true):
\* with a checkpoint, its state becomes the base and its tree is committed
\* to the state merkle db before update returns; the state after it stays
\* in memory.  st = [merkle, buffered].
BufferedStateUpdate(st, checkpoint, at_checkpoint, last_version, at_last) ==
    LET buffered == [st.buffered EXCEPT
                        !.current_version = last_version,
                        !.current = RootHash(at_last.leaves),
                        !.current_leaves = at_last.leaves,
                        !.current_usage = at_last.usage]
    IN  IF checkpoint = {} THEN [st EXCEPT !.buffered = buffered]
        ELSE LET c == CHOOSE v \in checkpoint : TRUE
             IN  [st EXCEPT
                    !.buffered = [buffered EXCEPT
                                     !.base_version = c,
                                     !.base = RootHash(at_checkpoint.leaves)],
                    !.merkle = [v \in DOMAIN st.merkle \cup {c} |->
                                   IF v = c THEN at_checkpoint.leaves
                                   ELSE st.merkle[v]]]

\* ensure!(num_transactions - snapshot_next_version <= MAX_...) with a slip:
\* a count equal to the bound is refused.
WriteSetsBelowBound(check_max_versions_after_snapshot, count) ==
    check_max_versions_after_snapshot => count < MAX_WRITE_SETS_AFTER_SNAPSHOT

\* if check_max_versions_after_snapshot { ensure!(... <= MAX_...) }: whether
\* the reconstruction goes on.
WriteSetsAllowed(check_max_versions_after_snapshot, count) ==
    check_max_versions_after_snapshot => count <= MAX_WRITE_SETS_AFTER_SNAPSHOT

\* The lookup of the latest snapshot with a slip: a snapshot at
\* num_transactions is found as well.
LatestSnapshotAtOrBefore(merkle, num_transactions) ==
    get_state_snapshot_version_before(merkle, num_transactions + 1)

\* let latest_snapshot_version =
\*     state_merkle_db.get_state_snapshot_version_before(num_transactions).
LatestSnapshotVersion(merkle, num_transactions) ==
    get_state_snapshot_version_before(merkle, num_transactions)

\* StateStore::create_buffered_state_from_latest_snapshot on the ledger db
\* (txns, vdata) and the state merkle db: its result, the state merkle db
\* after it and the buffered state it returns; besides, the two versions it
\* compares and whether it logged "snapshot is after latest transaction
\* version".
create_buffered_state_from_latest_snapshot(txns, vdata, merkle, hack_for_tests, check_max_versions_after_snapshot) ==
    LET num_transactions == NumTransactions(txns)
        latest == LatestSnapshotVersion(merkle, num_transactions)
        latest_snapshot_version == IF latest = {} THEN NoVersion
                                   ELSE CHOOSE v \in latest : TRUE
        leaves == IF latest = {} THEN {} ELSE merkle[latest_snapshot_version]
        usage == get_state_storage_usage(vdata, latest_snapshot_version)
        snapshot_next_version == IF latest = {} THEN 0 ELSE latest_snapshot_version + 1
        Return(result, merkle_after, buffered, compared) ==
            [result |-> result, merkle |-> merkle_after, buffered |-> buffered,
             num_transactions |-> num_transactions,
             snapshot_next_version |-> snapshot_next_version,
             snapshot_after_latest |->
                 compared /\ snapshot_next_version > num_transactions]
    IN  IF usage = {}
        THEN Return("NotFound", merkle, NoBufferedState, FALSE)
        ELSE LET buffered == NewAtCheckpoint(leaves, CHOOSE u \in usage : TRUE,
                                             latest_snapshot_version)
                 start == [leaves |-> leaves, usage |-> buffered.current_usage]
             IN  IF hack_for_tests
                 THEN Return("Ok", merkle, buffered, FALSE)
                 ELSE IF snapshot_next_version < num_transactions
                 THEN IF ~ WriteSetsAllowed(check_max_versions_after_snapshot,
                                            num_transactions - snapshot_next_version)
                      THEN Return("TooManyVersions", merkle, NoBufferedState, TRUE)
                      ELSE LET idx == last_checkpoint_index(txns, snapshot_next_version,
                                                            num_transactions)
                               checkpoint == {snapshot_next_version + i : i \in idx}
                               at_checkpoint ==
                                   IF checkpoint = {} THEN start
                                   ELSE ReplayWriteSets(start, txns, snapshot_next_version,
                                                        CHOOSE v \in checkpoint : TRUE)
                               at_last == ReplayWriteSets(start, txns, snapshot_next_version,
                                                          num_transactions - 1)
                               st == BufferedStateUpdate(
                                         [merkle |-> merkle, buffered |-> buffered],
                                         checkpoint, at_checkpoint,
                                         num_transactions - 1, at_last)
                           IN  Return("Ok", st.merkle, st.buffered, TRUE)
                 ELSE Return("Ok", merkle, buffered, TRUE)

\* StateStore::reset with a slip: the reconstruction takes the test-only
\* early return.
ResetForTests(txns, vdata, merkle) ==
    create_buffered_state_from_latest_snapshot(txns, vdata, merkle, TRUE, TRUE)

\* StateStore::reset: the reconstruction whose result replaces the buffered
\* state.
reset(txns, vdata, merkle) ==
    create_buffered_state_from_latest_snapshot(txns, vdata, merkle, FALSE, TRUE)

\* StateStore::new with a slip: the buffered state is built first.
NewStepsBufferedStateFirst ==
    <<"create_buffered_state_from_latest_snapshot", "sync_commit_progress">>

\* StateStore::new, statement by statement.
new_steps ==
    <<"sync_commit_progress", "create_buffered_state_from_latest_snapshot">>

\* The position and result of StateStore::new after the step at startup.pc.
AfterStep(ok) ==
    [startup EXCEPT !.pc = @ + 1,
                    !.result = IF ~ ok THEN "Panic"
                               ELSE IF startup.pc = Len(new_steps) THEN "Ok"
                               ELSE "none"]

AtStep(name) ==
    /\ startup.result = "none"
    /\ startup.pc \in 1 .. Len(new_steps)
    /\ new_steps[startup.pc] = name

\* StateStore::new at its call of sync_commit_progress.
NewSyncCommitProgress ==
    /\ AtStep("sync_commit_progress")
    /\ SyncStores(TRUE)
    /\ startup' = [AfterStep(sync_result' = "Ok") EXCEPT !.sync_runs = @ + 1]
    /\ create_call' = NoCreate
    /\ UNCHANGED <<overall_commit_progress, batchVars, put_result, put_call,
                   state_merkle_db, buffered_state, query, idleVars>>

\* What a reconstruction called by `op` leaves on record.
CreateCall(op, hack_for_tests, check_max_versions_after_snapshot, r) ==
    [op |-> op, hack_for_tests |-> hack_for_tests,
     check_max_versions_after_snapshot |-> check_max_versions_after_snapshot,
     snapshots_before |-> DOMAIN state_merkle_db,
     replaced |-> buffered_state,
     result |-> r.result, returned |-> r.buffered,
     num_transactions |-> r.num_transactions,
     snapshot_next_version |-> r.snapshot_next_version,
     snapshot_after_latest |-> r.snapshot_after_latest]

\* StateStore::new at its call of create_buffered_state_from_latest_snapshot
\* and .expect("buffered state creation failed.").
NewCreateBufferedState ==
    /\ AtStep("create_buffered_state_from_latest_snapshot")
    /\ LET r == create_buffered_state_from_latest_snapshot(
                    ledger_txns, version_data, state_merkle_db,
                    startup.hack_for_tests, TRUE)
       IN  /\ buffered_state' = r.buffered
           /\ state_merkle_db' = r.merkle
           /\ startup' = AfterStep(r.result = "Ok")
           /\ create_call' = CreateCall("new", startup.hack_for_tests, TRUE, r)
    /\ UNCHANGED <<storeVars, batchVars, put_result, put_call, progressVars,
                   syncVars, idleVars, ledger_txns, query>>

\* A call of StateStore::reset on the open store: the reconstruction, then
\* .expect("buffered state creation failed.") and the store of its result.
Reset ==
    /\ startup.result = "Ok"
    /\ LET r == reset(ledger_txns, version_data, state_merkle_db)
       IN  /\ state_merkle_db' = r.merkle
           /\ create_call' = CreateCall("reset", FALSE, TRUE, r)
           /\ IF r.result = "Ok"
              THEN /\ buffered_state' = r.buffered
                   /\ startup' = startup
              ELSE /\ buffered_state' = buffered_state
                   /\ startup' = [startup EXCEPT !.result = "Panic"]
    /\ UNCHANGED <<storeVars, batchVars, put_result, put_call, progressVars,
                   syncVars, idleVars, ledger_txns, query>>

\* A run of catch_up_state_merkle_db (the db-debugger tool) on the closed
\* store: the reconstruction without the check, whose buffered state is
\* dropped when the tool returns.
CatchUpStateMerkleDb ==
    /\ startup.result = "none"
    /\ startup.pc = 1
    /\ create_call = NoCreate
    /\ LET r == create_buffered_state_from_latest_snapshot(
                    ledger_txns, version_data, state_merkle_db, FALSE, FALSE)
       IN  /\ state_merkle_db' = r.merkle
           /\ create_call' = CreateCall("catch_up_state_merkle_db", FALSE, FALSE, r)
    /\ UNCHANGED <<storeVars, batchVars, put_result, put_call, progressVars,
                   syncVars, idleVars, ledger_txns, buffered_state, startup, query>>

\* How far the buffered state of the model runs ahead of the ledger.
MaxAhead == 1

\* The write sets of the transactions of the model.
ReplayValueSets ==
    {kvs \in ValueSets : kvs \in {[k \in {1} |-> 1], [k \in {1} |-> None],
                                  [k \in {3} |-> 1]}}

\* A caller's BufferedState::update with the state after one more version,
\* which the ledger does not hold yet; the caller is at the latest version.
UpdateBufferedState ==
    /\ startup.result = "Ok"
    /\ buffered_state.current_version >= NumTransactions(ledger_txns) - 1
    /\ buffered_state.current_version - (NumTransactions(ledger_txns) - 1) < MaxAhead
    /\ \E write_set \in ReplayValueSets :
          LET version == buffered_state.current_version + 1
              after == ApplyWrites([leaves |-> buffered_state.current_leaves,
                                    usage |-> buffered_state.current_usage],
                                   write_set, DOMAIN write_set, version)
          IN  buffered_state' =
                  BufferedStateUpdate([merkle |-> state_merkle_db,
                                       buffered |-> buffered_state],
                                      {}, after, version, after).buffered
    /\ create_call' = NoCreate
    /\ UNCHANGED <<storeVars, batchVars, put_result, put_call, progressVars,
                   syncVars, idleVars, treeVars, startup, query>>

\* The leaves of the state as of `version`: one per key whose latest write
\* at or before it is a value.
LeavesAt(rows, version) ==
    {Leaf(f.key, f.found.version, f.found.value) :
        f \in {[key |-> k, found |-> w] :
                  <<k, w>> \in {<<k2, w2>> \in Keys \X [version : 0 .. version, value : Values] :
                                   w2 \in get_state_value_with_version_by_version(
                                              rows, k2, version)}}}

\* The transactions a ledger of the model holds: `pad` transactions that
\* write nothing, then up to MaxVersions transactions that each write at most
\* one key and may be state checkpoints.
Histories ==
    UNION {[1 .. n -> [write_set : ReplayValueSets, is_state_checkpoint : BOOLEAN]] :
              n \in 0 .. MaxVersions}
PadLengths == {0, MAX_WRITE_SETS_AFTER_SNAPSHOT - 1}
EmptyTxn == [write_set |-> EmptyMap, is_state_checkpoint |-> FALSE]
LedgerOf(pad, history) ==
    [v \in 0 .. (pad + Len(history) - 1) |->
        IF v < pad THEN EmptyTxn ELSE history[v - pad + 1]]

\* The stores after the transactions of the ledger were committed.
CommittedStores(pad, history) ==
    LET padded == [v \in 0 .. (pad - 1) |-> UsageZero]
        r == put_value_sets({}, padded,
                            [i \in 1 .. Len(history) |-> history[i].write_set],
                            pad, Untracked, EmptyMap, EmptyBatches)
    IN  [vdata |-> [v \in DOMAIN padded \cup DOMAIN r.ledger |->
                       IF v \in DOMAIN r.ledger THEN r.ledger[v] ELSE padded[v]],
         rows |-> UNION {r.batches[s].values : s \in Shards},
         stale |-> UNION {r.batches[s].stale : s \in Shards}]

\* A store as a crash or a shutdown left it: the ledger db and the state
\* K/V db hold every transaction, the overall commit progress is at the last
\* one or one behind, and trees are persisted at some of the state
\* checkpoints.
InitStartup ==
    \E history \in Histories, pad \in PadLengths, behind \in {0, 1},
       hack_for_tests \in BOOLEAN :
       LET txns == LedgerOf(pad, history)
           last == pad + Len(history) - 1
           stores == CommittedStores(pad, history)
           checkpoints == {v \in DOMAIN txns : txns[v].is_state_checkpoint}
       IN  /\ last >= behind
           /\ \E snapshots \in SUBSET checkpoints :
                 /\ pad > 0 => snapshots = {}
                 /\ state_merkle_db = [v \in snapshots |-> LeavesAt(stores.rows, v)]
           /\ ledger_txns = txns
           /\ version_data = stores.vdata
           /\ state_kv_db = stores.rows
           /\ stale_index_db = stores.stale
           /\ overall_commit_progress = IF last < 0 THEN NoProgress ELSE last - behind
           /\ ledger_commit_progress = last
           /\ state_kv_commit_progress = last
           /\ startup = [pc |-> 1, sync_runs |-> 0, hack_for_tests |-> hack_for_tests,
                         result |-> "none"]
           /\ buffered_state = NoBufferedState
           /\ create_call = NoCreate
           /\ query = NoQuery
           /\ InitIdle
           /\ ledger_batch = EmptyMap
           /\ sharded_state_kv_batches = EmptyBatches
           /\ put_result = "none"
           /\ put_call = NoCall
           /\ sync_result = "none"
           /\ sync_call = NoSync

NextStartup ==
    \/ NewSyncCommitProgress
    \/ NewCreateBufferedState
    \/ Reset
    \/ UpdateBufferedState
    \/ CatchUpStateMerkleDb

SpecStartup == InitStartup /\ [][NextStartup]_vars

(***************************************************************************)
(* Reads of the persisted trees.                                           *)
(***************************************************************************)
\* An open store at rest: every transaction of the ledger is committed and
\* trees are persisted at some of the state checkpoints.
InitReads ==
    \E history \in Histories :
       \E txns \in {LedgerOf(0, history)}, stores \in {CommittedStores(0, history)} :
           LET last == Len(history) - 1
               checkpoints == {v \in DOMAIN txns : txns[v].is_state_checkpoint}
           IN  /\ \E snapshots \in SUBSET checkpoints :
                     \E r \in {reset(txns, stores.vdata,
                                    [v \in snapshots |-> LeavesAt(stores.rows, v)])} :
                         /\ r.result = "Ok"
                         /\ state_merkle_db = r.merkle
                         /\ buffered_state = r.buffered
               /\ ledger_txns = txns
               /\ version_data = stores.vdata
               /\ state_kv_db = stores.rows
               /\ stale_index_db = stores.stale
               /\ overall_commit_progress = IF last < 0 THEN NoProgress ELSE last
               /\ ledger_commit_progress = last
               /\ state_kv_commit_progress = last
               /\ startup = [pc |-> Len(new_steps) + 1, sync_runs |-> 1,
                             hack_for_tests |-> FALSE, result |-> "Ok"]
               /\ create_call = NoCreate
               /\ query = NoQuery
               /\ InitIdle
               /\ ledger_batch = EmptyMap
               /\ sharded_state_kv_batches = EmptyBatches
               /\ put_result = "none"
               /\ put_call = NoCall
               /\ sync_result = "Ok"
               /\ sync_call = NoSync

\* A call of get_state_snapshot_before on the open store.
GetStateSnapshotBefore ==
    /\ startup.result = "Ok"
    /\ \E next_version \in 0 .. (NumTransactions(ledger_txns) + 1) :
          query' = [op |-> "get_state_snapshot_before",
                    next_version |-> next_version,
                    result |-> get_state_snapshot_before(state_merkle_db, next_version)]
    /\ UNCHANGED <<storeVars, batchVars, put_result, put_call, progressVars,
                   syncVars, idleVars, treeVars, buffered_state, startup, create_call>>

\* The greatest chunk size and first index a caller of the model asks for.
MaxChunkSize == 3

\* JellyfishMerkleIterator: the leaves of a tree in key-hash order.
SortedLeaves(leaves) ==
    CHOOSE seq \in [1 .. Cardinality(leaves) -> leaves] :
        \A i, j \in 1 .. Cardinality(leaves) :
            i < j => seq[i].key_hash < seq[j].key_hash

\* The iteration with a slip: it starts one leaf after first_index.
TakeLeavesAfterFirstIndex(leaves, first_index, chunk_size) ==
    LET all == SortedLeaves(leaves)
        last == IF first_index + 1 + chunk_size < Len(all) THEN first_index + 1 + chunk_size
                ELSE Len(all)
    IN  [i \in 1 .. (last - first_index - 1) |-> all[first_index + 1 + i]]

\* JellyfishMerkleIterator::new_by_index(.., first_index).take(chunk_size).
TakeLeaves(leaves, first_index, chunk_size) ==
    LET all == SortedLeaves(leaves)
        last == IF first_index + chunk_size < Len(all) THEN first_index + chunk_size
                ELSE Len(all)
    IN  [i \in 1 .. (last - first_index) |-> all[first_index + i]]

\* StateDb::expect_value_by_version: the value, or the error "State Value
\* is missing" (here the empty set).
expect_value_by_version(rows, state_key, version) ==
    LET opt == get_state_value_by_version(rows, state_key, version)
    IN  IF opt = None THEN {} ELSE {opt}

\* get_value_range_proof(rightmost_key, version): what commits to the part
\* of the tree to the right of rightmost_key.
get_value_range_proof(merkle, rightmost_key, version) ==
    RootHash({l \in merkle[version] : l.key_hash > rightmost_key})

\* get_value_chunk_with_proof with a slip: last_index is one too far.
ChunkWithLastIndexOneTooFar(rows, merkle, version, first_index, chunk_size) ==
    IF version \notin DOMAIN merkle THEN [result |-> "Err"]
    ELSE LET taken == TakeLeaves(merkle[version], first_index, chunk_size)
             values == [i \in DOMAIN taken |->
                           expect_value_by_version(rows, taken[i].key, taken[i].version)]
         IN  IF \E i \in DOMAIN taken : values[i] = {} THEN [result |-> "MissingValue"]
             ELSE IF Len(taken) = 0 THEN [result |-> "NotFound"]
             ELSE [result |-> "Ok",
                   first_index |-> first_index,
                   last_index |-> Len(taken) + first_index,
                   first_key |-> KeyHash(taken[1].key),
                   last_key |-> KeyHash(taken[Len(taken)].key),
                   raw_values |-> [i \in DOMAIN taken |->
                                      [key |-> taken[i].key,
                                       value |-> CHOOSE v \in values[i] : TRUE]],
                   proof |-> get_value_range_proof(merkle, KeyHash(taken[Len(taken)].key),
                                                   version),
                   root_hash |-> RootHash(merkle[version])]

\* get_value_chunk_with_proof with a slip: last_index is one short.
ChunkWithLastIndexOneShort(rows, merkle, version, first_index, chunk_size) ==
    IF version \notin DOMAIN merkle THEN [result |-> "Err"]
    ELSE LET taken == TakeLeaves(merkle[version], first_index, chunk_size)
             values == [i \in DOMAIN taken |->
                           expect_value_by_version(rows, taken[i].key, taken[i].version)]
         IN  IF \E i \in DOMAIN taken : values[i] = {} THEN [result |-> "MissingValue"]
             ELSE IF Len(taken) = 0 THEN [result |-> "NotFound"]
             ELSE [result |-> "Ok",
                   first_index |-> first_index,
                   last_index |-> Len(taken) - 2 + first_index,
                   first_key |-> KeyHash(taken[1].key),
                   last_key |-> KeyHash(taken[Len(taken)].key),
                   raw_values |-> [i \in DOMAIN taken |->
                                      [key |-> taken[i].key,
                                       value |-> CHOOSE v \in values[i] : TRUE]],
                   proof |-> get_value_range_proof(merkle, KeyHash(taken[Len(taken)].key),
                                                   version),
                   root_hash |-> RootHash(merkle[version])]

\* StateStore::get_value_chunk_with_proof: the chunk, NotFound when no leaf
\* is at first_index, or the error of the iterator or of a missing value.
get_value_chunk_with_proof(rows, merkle, version, first_index, chunk_size) ==
    IF version \notin DOMAIN merkle THEN [result |-> "Err"]
    ELSE LET taken == TakeLeaves(merkle[version], first_index, chunk_size)
             values == [i \in DOMAIN taken |->
                           expect_value_by_version(rows, taken[i].key, taken[i].version)]
         IN  IF \E i \in DOMAIN taken : values[i] = {} THEN [result |-> "MissingValue"]
             ELSE IF Len(taken) = 0 THEN [result |-> "NotFound"]
             ELSE [result |-> "Ok",
                   first_index |-> first_index,
                   last_index |-> Len(taken) - 1 + first_index,
                   first_key |-> KeyHash(taken[1].key),
                   last_key |-> KeyHash(taken[Len(taken)].key),
                   raw_values |-> [i \in DOMAIN taken |->
                                      [key |-> taken[i].key,
                                       value |-> CHOOSE v \in values[i] : TRUE]],
                   proof |-> get_value_range_proof(merkle, KeyHash(taken[Len(taken)].key),
                                                   version),
                   root_hash |-> RootHash(merkle[version])]

\* A call of get_value_chunk_with_proof on the open store.
GetValueChunkWithProof ==
    /\ startup.result = "Ok"
    /\ \E version \in DOMAIN state_merkle_db,
          first_index \in 0 .. MaxChunkSize, chunk_size \in 0 .. MaxChunkSize :
          query' = [op |-> "get_value_chunk_with_proof", version |-> version,
                    first_index |-> first_index, chunk_size |-> chunk_size,
                    result |-> get_value_chunk_with_proof(state_kv_db, state_merkle_db,
                                                          version, first_index, chunk_size)]
    /\ UNCHANGED <<storeVars, batchVars, put_result, put_call, progressVars,
                   syncVars, idleVars, treeVars, buffered_state, startup, create_call>>

NextReads == GetStateSnapshotBefore \/ GetValueChunkWithProof

SpecReads == InitReads /\ [][NextReads]_vars

(***************************************************************************)
(* Snapshot restore: the StateValueWriter of the store and the session     *)
(* that drives it.                                                         *)
(***************************************************************************)
\* put of a row under (key, version): a row already there is overwritten.
PutRows(rows, node_batch) ==
    {r \in rows : ~ \E n \in node_batch : n.key = r.key /\ n.version = r.version}
        \cup node_batch

\* write_kv_batch with a slip: the values are put into a batch that is not
\* the one committed with the progress.
WriteKvBatchProgressOnly(db, version, node_batch, progress) ==
    [db EXCEPT !.metadata = [v \in DOMAIN db.metadata \cup {version} |->
                                IF v = version THEN progress ELSE db.metadata[v]]]

\* StateValueWriter::write_kv_batch: the values of node_batch and the
\* progress under StateSnapshotRestoreProgress(version), in one SchemaBatch
\* that commit_raw_batch writes atomically.
write_kv_batch(db, version, node_batch, progress) ==
    [db EXCEPT !.state_kv = PutRows(db.state_kv, node_batch),
               !.metadata = [v \in DOMAIN db.metadata \cup {version} |->
                                IF v = version THEN progress ELSE db.metadata[v]]]

\* StateValueWriter::write_usage: the VersionData row of `version`.
write_usage(db, version, usage) ==
    [db EXCEPT !.version_data = [v \in DOMAIN db.version_data \cup {version} |->
                                    IF v = version THEN usage ELSE db.version_data[v]]]

\* get_progress with a slip: the progress is looked up under the version
\* before.
GetProgressOfPreviousVersion(db, version) ==
    IF version - 1 \in DOMAIN db.metadata THEN {db.metadata[version - 1]} ELSE {}

\* StateValueWriter::get_progress: the progress stored under
\* StateSnapshotRestoreProgress(version), if any.
get_progress(db, version) ==
    IF version \in DOMAIN db.metadata THEN {db.metadata[version]} ELSE {}

\* The usage after the entries of a chunk are added to it.
RECURSIVE AddItems(_, _, _)
AddItems(usage, chunk, i) ==
    IF i > Len(chunk) THEN usage
    ELSE AddItems(add_item(usage, KeySize(chunk[i].key) + ValueSize(chunk[i].value)),
                  chunk, i + 1)

\* StateValueRestore::add_chunk: the entries at or before the stored
\* progress are skipped; the others are written with the progress of the
\* last one.  The result is [db, written]: the stores and the batch written.
KvAddChunk(db, version, chunk) ==
    LET progress_opt == get_progress(db, version)
        todo == IF progress_opt = {} THEN chunk
                ELSE SelectSeq(chunk,
                         LAMBDA e : KeyHash(e.key) > (CHOOSE p \in progress_opt : TRUE).key_hash)
        usage == IF progress_opt = {} THEN UsageZero
                 ELSE (CHOOSE p \in progress_opt : TRUE).usage
    IN  IF Len(todo) = 0 THEN [db |-> db, written |-> NoChunk]
        ELSE LET node_batch == {[key |-> todo[i].key, version |-> version,
                                 value |-> todo[i].value] : i \in DOMAIN todo}
                 progress == [key_hash |-> KeyHash(todo[Len(todo)].key),
                              usage |-> AddItems(usage, todo, 1)]
             IN  [db |-> write_kv_batch(db, version, node_batch, progress),
                  written |-> [result |-> "written", version |-> version,
                               node_batch |-> node_batch, progress |-> progress]]

\* StateValueRestore::finish: the usage of the progress becomes the usage
\* record of the version.
KvFinish(db, version) ==
    LET progress_opt == get_progress(db, version)
    IN  write_usage(db, version,
                    IF progress_opt = {} THEN UsageZero
                    ELSE (CHOOSE p \in progress_opt : TRUE).usage)

\* The leaves the tree restore of `version` has persisted.
RestoredLeaves(db, version) ==
    IF version \in DOMAIN db.state_merkle THEN db.state_merkle[version] ELSE {}

\* JellyfishMerkleRestore::add_chunk: the entries at or before the rightmost
\* persisted leaf are skipped, the others become leaves, and the leaves so
\* far together with the range proof must give the expected root hash.
\* The result is [db, ok].
TreeAddChunk(db, version, expected_root_hash, chunk, proof) ==
    LET have == RestoredLeaves(db, version)
        todo == {i \in DOMAIN chunk :
                    \A l \in have : KeyHash(chunk[i].key) > l.key_hash}
        leaves == have \cup {Leaf(chunk[i].key, version, chunk[i].value) : i \in todo}
    IN  IF todo = {} THEN [db |-> db, ok |-> TRUE]
        ELSE IF RootHash(leaves) \cup proof /= expected_root_hash
        THEN [db |-> db, ok |-> FALSE]
        ELSE [db |-> [db EXCEPT !.state_merkle =
                         [v \in DOMAIN db.state_merkle \cup {version} |->
                             IF v = version THEN leaves ELSE db.state_merkle[v]]],
              ok |-> TRUE]

\* JellyfishMerkleRestore::finish: the tree of the version is complete.
TreeFinish(db, version) ==
    [db EXCEPT !.state_merkle =
        [v \in DOMAIN db.state_merkle \cup {version} |-> RestoredLeaves(db, v)]]

\* How often the node under restore crashes.
MaxCrashes == 1

\* StateStore::get_snapshot_receiver(version, expected_root_hash) on the
\* node under restore, by a driver that starts a transfer of the tree of
\* `version` of the source store, or takes it up after a crash from a chunk
\* it delivered before, none later than the first one not acknowledged.
GetSnapshotReceiver ==
    /\ ~ receiver.open
    /\ \E version \in DOMAIN state_merkle_db, chunk_size \in 1 .. MaxChunkSize,
          next_index \in 0 .. transfer.acked_index :
          /\ transfer.crashes > 0 =>
                /\ version = transfer.version
                /\ chunk_size = transfer.chunk_size
                /\ next_index \in transfer.sent \cup {transfer.acked_index}
          /\ transfer.crashes = 0 => next_index = 0
          /\ receiver' = [open |-> TRUE, version |-> version,
                          expected_root_hash |-> RootHash(state_merkle_db[version]),
                          failed |-> FALSE, finished |-> FALSE]
          /\ transfer' = [transfer EXCEPT !.version = version,
                                          !.chunk_size = chunk_size,
                                          !.next_index = next_index,
                                          !.exhausted = FALSE]
    /\ UNCHANGED <<storeVars, batchVars, put_result, put_call, progressVars,
                   syncVars, treeVars, bufferVars, restore_db, threadVars,
                   serviceVars>>

\* The driver reads the next chunk from the source store.
ExportChunk ==
    /\ receiver.open /\ ~ receiver.failed /\ ~ receiver.finished
    /\ transfer.in_flight = NoChunk
    /\ ~ transfer.exhausted
    /\ LET chunk == get_value_chunk_with_proof(state_kv_db, state_merkle_db,
                        transfer.version, transfer.next_index, transfer.chunk_size)
       IN  IF chunk.result = "Ok"
           THEN transfer' = [transfer EXCEPT
                                !.in_flight = chunk,
                                !.next_index = chunk.last_index + 1,
                                !.sent = @ \cup {chunk.first_index},
                                !.redelivered = @ \/ chunk.first_index \in transfer.sent]
           ELSE transfer' = [transfer EXCEPT !.exhausted = TRUE]
    /\ UNCHANGED <<storeVars, batchVars, put_result, put_call, progressVars,
                   syncVars, treeVars, bufferVars, restore_db, receiver, threadVars,
                   serviceVars>>

\* What the driver knows once both halves of add_chunk returned.
Delivered(t) ==
    IF t.kv_done /\ t.tree_done
    THEN [t EXCEPT !.in_flight = NoChunk, !.kv_done = FALSE, !.tree_done = FALSE,
                   !.acked_index = IF t.next_index > @ THEN t.next_index ELSE @]
    ELSE t

\* StateSnapshotRestore::add_chunk, the state value half.
AddChunkKv ==
    /\ receiver.open /\ ~ receiver.failed
    /\ transfer.in_flight /= NoChunk
    /\ ~ transfer.kv_done
    /\ LET r == KvAddChunk(restore_db, receiver.version, transfer.in_flight.raw_values)
       IN  /\ restore_db' = r.db
           /\ transfer' = Delivered([transfer EXCEPT
                                        !.kv_done = TRUE,
                                        !.last_written = IF r.written = NoChunk THEN @
                                                         ELSE r.written])
    /\ UNCHANGED <<storeVars, batchVars, put_result, put_call, progressVars,
                   syncVars, treeVars, bufferVars, receiver, threadVars,
                   serviceVars>>

\* StateSnapshotRestore::add_chunk, the tree half.
AddChunkTree ==
    /\ receiver.open /\ ~ receiver.failed
    /\ transfer.in_flight /= NoChunk
    /\ ~ transfer.tree_done
    /\ LET r == TreeAddChunk(restore_db, receiver.version, receiver.expected_root_hash,
                             transfer.in_flight.raw_values, transfer.in_flight.proof)
       IN  /\ restore_db' = r.db
           /\ receiver' = [receiver EXCEPT !.failed = ~ r.ok]
           /\ transfer' = Delivered([transfer EXCEPT !.tree_done = TRUE])
    /\ UNCHANGED <<storeVars, batchVars, put_result, put_call, progressVars,
                   syncVars, treeVars, bufferVars, threadVars,
                   serviceVars>>

\* StateSnapshotRestore::finish after the last chunk.
Finish ==
    /\ receiver.open /\ ~ receiver.failed /\ ~ receiver.finished
    /\ transfer.exhausted
    /\ transfer.in_flight = NoChunk
    /\ restore_db' = TreeFinish(KvFinish(restore_db, receiver.version), receiver.version)
    /\ receiver' = [receiver EXCEPT !.finished = TRUE]
    /\ UNCHANGED <<storeVars, batchVars, put_result, put_call, progressVars,
                   syncVars, treeVars, bufferVars, transfer, threadVars,
                   serviceVars>>

\* The node under restore crashes and restarts: the session and the chunk in
\* flight are lost, the stores are kept.
CrashRestore ==
    /\ receiver.open /\ ~ receiver.finished /\ ~ receiver.failed
    /\ transfer.crashes < MaxCrashes
    /\ receiver' = NoReceiver
    /\ transfer' = [transfer EXCEPT !.in_flight = NoChunk, !.kv_done = FALSE,
                                    !.tree_done = FALSE, !.crashes = @ + 1]
    /\ UNCHANGED <<storeVars, batchVars, put_result, put_call, progressVars,
                   syncVars, treeVars, bufferVars, restore_db, threadVars,
                   serviceVars>>

\* The source store of a restore: an open store at rest in which every
\* transaction is a state checkpoint whose tree is persisted, and an empty
\* node to restore it to.
InitRestore ==
    \E history \in Histories :
       /\ \A i \in DOMAIN history : history[i].is_state_checkpoint
       /\ \E txns \in {LedgerOf(0, history)}, stores \in {CommittedStores(0, history)} :
           \E r \in {reset(txns, stores.vdata,
                           [v \in DOMAIN txns |-> LeavesAt(stores.rows, v)])} :
               LET last == Len(history) - 1
               IN  /\ r.result = "Ok"
                   /\ state_merkle_db = r.merkle
                   /\ buffered_state = r.buffered
                   /\ ledger_txns = txns
                   /\ version_data = stores.vdata
                   /\ state_kv_db = stores.rows
                   /\ stale_index_db = stores.stale
                   /\ overall_commit_progress = IF last < 0 THEN NoProgress ELSE last
                   /\ ledger_commit_progress = last
                   /\ state_kv_commit_progress = last
                   /\ startup = [pc |-> Len(new_steps) + 1, sync_runs |-> 1,
                                 hack_for_tests |-> FALSE, result |-> "Ok"]
                   /\ create_call = NoCreate
                   /\ query = NoQuery
                   /\ InitIdle
                   /\ ledger_batch = EmptyMap
                   /\ sharded_state_kv_batches = EmptyBatches
                   /\ put_result = "none"
                   /\ put_call = NoCall
                   /\ sync_result = "Ok"
                   /\ sync_call = NoSync

NextRestore ==
    \/ GetSnapshotReceiver
    \/ ExportChunk
    \/ AddChunkKv
    \/ AddChunkTree
    \/ Finish
    \/ CrashRestore

SpecRestore == InitRestore /\ [][NextRestore]_vars

(***************************************************************************)
(* Threads on the open store: commits, which update the buffered state     *)
(* under its Mutex, and StateStore::reset.                                 *)
(***************************************************************************)
\* thread_state[t] with one field changed.
AtPc(t, pc) == thread_state[t].pc = pc
GoTo(t, pc) == [thread_state EXCEPT ![t].pc = pc]

\* A committing thread takes the Mutex returned by StateStore::buffered_state.
UpdateLock(t) ==
    /\ AtPc(t, "idle")
    /\ lock = NoThread
    /\ NumTransactions(ledger_txns) < MaxVersions + MaxAhead
    /\ lock' = t
    /\ thread_state' = GoTo(t, "updating")
    /\ UNCHANGED <<storeVars, batchVars, put_result, put_call, progressVars,
                   syncVars, treeVars, bufferVars, restoreVars,
                   serviceVars>>

\* The committing thread, holding the Mutex, commits the next transaction
\* to the ledger db and the state K/V db, updates the buffered state to it
\* and drops the guard.
UpdateCommit(t) ==
    /\ AtPc(t, "updating")
    /\ lock = t
    /\ \E write_set \in ReplayValueSets :
          LET version == NumTransactions(ledger_txns)
              r == put_value_sets(state_kv_db, version_data, <<write_set>>, version,
                                  Untracked, EmptyMap, EmptyBatches)
              after == ApplyWrites([leaves |-> buffered_state.current_leaves,
                                    usage |-> buffered_state.current_usage],
                                   write_set, DOMAIN write_set,
                                   buffered_state.current_version + 1)
          IN  /\ r.result = "Ok"
              /\ ledger_txns' = [v \in DOMAIN ledger_txns \cup {version} |->
                                    IF v = version
                                    THEN [write_set |-> write_set,
                                          is_state_checkpoint |-> FALSE]
                                    ELSE ledger_txns[v]]
              /\ version_data' = [v \in DOMAIN version_data \cup DOMAIN r.ledger |->
                                     IF v \in DOMAIN r.ledger THEN r.ledger[v]
                                     ELSE version_data[v]]
              /\ state_kv_db' = state_kv_db \cup UNION {r.batches[s].values : s \in Shards}
              /\ stale_index_db' = stale_index_db \cup
                                       UNION {r.batches[s].stale : s \in Shards}
              /\ overall_commit_progress' = version
              /\ ledger_commit_progress' = version
              /\ state_kv_commit_progress' = version
              /\ buffered_state' =
                     BufferedStateUpdate([merkle |-> state_merkle_db,
                                          buffered |-> buffered_state],
                                         {}, after, buffered_state.current_version + 1,
                                         after).buffered
    /\ lock' = NoThread
    /\ thread_state' = GoTo(t, "idle")
    /\ UNCHANGED <<batchVars, put_result, put_call, syncVars, state_merkle_db,
                   startup, create_call, query, restoreVars,
                   serviceVars>>

\* A thread in StateStore::reset: the right-hand side of the assignment,
\* the reconstruction with its .expect(..), is evaluated before the place
\* `*self.buffered_state.lock()`, hence before the Mutex is taken.  It reads
\* the persisted stores and commits the tree of the last checkpoint.
ResetCreate(t) ==
    /\ AtPc(t, "idle")
    /\ startup.result = "Ok"
    /\ LET r == reset(ledger_txns, version_data, state_merkle_db)
       IN  /\ state_merkle_db' = r.merkle
           /\ thread_state' =
                 [thread_state EXCEPT
                     ![t] = [pc |-> IF r.result = "Ok" THEN "reset_created"
                                    ELSE "panicked",
                             created |-> r.buffered, seen |-> buffered_state,
                             holder |-> lock]]
    /\ UNCHANGED <<storeVars, batchVars, put_result, put_call, progressVars,
                   syncVars, ledger_txns, bufferVars, restoreVars, lock,
                   serviceVars>>

\* *self.buffered_state.lock() = <the buffered state built>: the Mutex is
\* taken, the value stored and the guard dropped at the end of the statement.
ResetStore(t) ==
    /\ AtPc(t, "reset_created")
    /\ lock = NoThread
    /\ buffered_state' = thread_state[t].created
    /\ thread_state' = [thread_state EXCEPT ![t] = IdleThread]
    /\ UNCHANGED <<storeVars, batchVars, put_result, put_call, progressVars,
                   syncVars, treeVars, startup, create_call, query, restoreVars, lock,
                   serviceVars>>

InitConcurrent == InitRestore

NextConcurrent ==
    \E t \in Threads :
        \/ UpdateLock(t)
        \/ UpdateCommit(t)
        \/ ResetCreate(t)
        \/ ResetStore(t)

SpecConcurrent == InitConcurrent /\ [][NextConcurrent]_vars

(***************************************************************************)
(* A node whose state store is not open: the configuration and the indexer *)
(* data service do not touch it.                                           *)
(***************************************************************************)
InitStoreClosed ==
    /\ version_data = EmptyMap
    /\ state_kv_db = {}
    /\ stale_index_db = {}
    /\ ledger_batch = EmptyMap
    /\ sharded_state_kv_batches = EmptyBatches
    /\ put_result = "none"
    /\ put_call = NoCall
    /\ overall_commit_progress = NoProgress
    /\ ledger_commit_progress = NoProgress
    /\ state_kv_commit_progress = NoProgress
    /\ sync_result = "none"
    /\ sync_call = NoSync
    /\ ledger_txns = EmptyMap
    /\ state_merkle_db = EmptyMap
    /\ buffered_state = NoBufferedState
    /\ startup = NotStarted
    /\ create_call = NoCreate
    /\ query = NoQuery
    /\ restore_db = EmptyStores
    /\ receiver = NoReceiver
    /\ transfer = NoTransfer
    /\ lock = NoThread
    /\ thread_state = [t \in Threads |-> IdleThread]
    /\ io_pool = NoPool

(***************************************************************************)
(* SafetyRulesConfig::sanitize (config/safety_rules_config.rs).            *)
(***************************************************************************)
\* SafetyRulesConfig, by the fields sanitize reads: the SecureBackend, the
\* SafetyRulesService, `test`, which is an Option, and
\* initial_safety_rules_config, which is FromFile or None.
SafetyRulesConfigs ==
    [backend : {"GitHub", "InMemoryStorage", "Vault", "OnDiskStorage", "RocksDbStorage"},
     service : {"Local", "Process", "Serializer", "Thread"},
     test : {"Some", "None"}, initial_safety_rules_config : {"FromFile", "None"}]

\* SafetyRulesConfig::default.
DefaultSafetyRulesConfig ==
    [backend |-> "InMemoryStorage", service |-> "Local", test |-> "None",
     initial_safety_rules_config |-> "None"]

is_validator(node_role) == node_role = "Validator"
is_mainnet(chain_id) == chain_id = "mainnet"
is_github(backend) == backend = "GitHub"
is_in_memory(backend) == backend = "InMemoryStorage"
\* SafetyRulesService::is_local.
is_local(service) == service = "Local"

SanitizeOk == [result |-> "Ok", message |-> ""]
ConfigSanitizerFailed(message) == [result |-> "ConfigSanitizerFailed", message |-> message]

\* sanitize with a slip: no early return for a node that is not a validator.
SanitizeEveryRole(safety_rules_config, node_role, chain_id) ==
    IF is_mainnet(chain_id) /\ is_validator(node_role)
       /\ is_github(safety_rules_config.backend)
    THEN ConfigSanitizerFailed("The secure backend should not be set to GitHub in mainnet!")
    ELSE IF is_mainnet(chain_id) /\ is_validator(node_role)
            /\ is_in_memory(safety_rules_config.backend)
    THEN ConfigSanitizerFailed("The secure backend should not be set to in memory storage in mainnet!")
    ELSE IF is_mainnet(chain_id) /\ ~ is_local(safety_rules_config.service)
    THEN ConfigSanitizerFailed("The safety rules service should be set to local in mainnet for optimal performance!")
    ELSE IF is_mainnet(chain_id) /\ safety_rules_config.test = "Some"
    THEN ConfigSanitizerFailed("The safety rules test config should not be used in mainnet!")
    ELSE IF is_validator(node_role)
            /\ safety_rules_config.initial_safety_rules_config = "None"
    THEN ConfigSanitizerFailed("The initial safety rules config must be set for validators!")
    ELSE SanitizeOk

\* sanitize with a slip: the test config is not looked at.
SanitizeIgnoresTestConfig(safety_rules_config, node_role, chain_id) ==
    IF ~ is_validator(node_role) THEN SanitizeOk
    ELSE IF is_mainnet(chain_id) /\ is_validator(node_role)
            /\ is_github(safety_rules_config.backend)
    THEN ConfigSanitizerFailed("The secure backend should not be set to GitHub in mainnet!")
    ELSE IF is_mainnet(chain_id) /\ is_validator(node_role)
            /\ is_in_memory(safety_rules_config.backend)
    THEN ConfigSanitizerFailed("The secure backend should not be set to in memory storage in mainnet!")
    ELSE IF is_mainnet(chain_id) /\ ~ is_local(safety_rules_config.service)
    THEN ConfigSanitizerFailed("The safety rules service should be set to local in mainnet for optimal performance!")
    ELSE IF is_validator(node_role)
            /\ safety_rules_config.initial_safety_rules_config = "None"
    THEN ConfigSanitizerFailed("The initial safety rules config must be set for validators!")
    ELSE SanitizeOk

\* sanitize with a slip: the initial safety rules config is required on
\* mainnet only.
SanitizeInitialConfigOnMainnet(safety_rules_config, node_role, chain_id) ==
    IF ~ is_validator(node_role) THEN SanitizeOk
    ELSE IF is_mainnet(chain_id) /\ is_validator(node_role)
            /\ is_github(safety_rules_config.backend)
    THEN ConfigSanitizerFailed("The secure backend should not be set to GitHub in mainnet!")
    ELSE IF is_mainnet(chain_id) /\ is_validator(node_role)
            /\ is_in_memory(safety_rules_config.backend)
    THEN ConfigSanitizerFailed("The secure backend should not be set to in memory storage in mainnet!")
    ELSE IF is_mainnet(chain_id) /\ ~ is_local(safety_rules_config.service)
    THEN ConfigSanitizerFailed("The safety rules service should be set to local in mainnet for optimal performance!")
    ELSE IF is_mainnet(chain_id) /\ safety_rules_config.test = "Some"
    THEN ConfigSanitizerFailed("The safety rules test config should not be used in mainnet!")
    ELSE IF is_mainnet(chain_id) /\ is_validator(node_role)
            /\ safety_rules_config.initial_safety_rules_config = "None"
    THEN ConfigSanitizerFailed("The initial safety rules config must be set for validators!")
    ELSE SanitizeOk

\* SafetyRulesConfig::sanitize: the checks in the order of the code, the
\* first that fails returns.
sanitize(safety_rules_config, node_role, chain_id) ==
    IF ~ is_validator(node_role) THEN SanitizeOk
    ELSE IF is_mainnet(chain_id) /\ is_validator(node_role)
            /\ is_github(safety_rules_config.backend)
    THEN ConfigSanitizerFailed("The secure backend should not be set to GitHub in mainnet!")
    ELSE IF is_mainnet(chain_id) /\ is_validator(node_role)
            /\ is_in_memory(safety_rules_config.backend)
    THEN ConfigSanitizerFailed("The secure backend should not be set to in memory storage in mainnet!")
    ELSE IF is_mainnet(chain_id) /\ ~ is_local(safety_rules_config.service)
    THEN ConfigSanitizerFailed("The safety rules service should be set to local in mainnet for optimal performance!")
    ELSE IF is_mainnet(chain_id) /\ safety_rules_config.test = "Some"
    THEN ConfigSanitizerFailed("The safety rules test config should not be used in mainnet!")
    ELSE IF is_validator(node_role)
            /\ safety_rules_config.initial_safety_rules_config = "None"
    THEN ConfigSanitizerFailed("The initial safety rules config must be set for validators!")
    ELSE SanitizeOk

\* A node config, a RoleType and a named chain, not yet sanitized.
InitSanitize ==
    /\ sanitize_call \in [node_role : {"Validator", "FullNode"},
                          chain_id : {"mainnet", "testnet", "devnet"},
                          safety_rules : SafetyRulesConfigs, result : {NoSanitize}]
    /\ stream = NoStream
    /\ InitStoreClosed

\* The call of sanitize.
Sanitize ==
    /\ sanitize_call.result = NoSanitize
    /\ sanitize_call' =
          [sanitize_call EXCEPT !.result =
              sanitize(sanitize_call.safety_rules, sanitize_call.node_role,
                       sanitize_call.chain_id)]
    /\ UNCHANGED <<storeVars, batchVars, put_result, put_call, progressVars,
                   syncVars, ledger_txns, state_merkle_db, bufferVars,
                   restoreVars, threadVars, stream, io_pool>>

SpecSanitize == InitSanitize /\ [][Sanitize]_vars

(***************************************************************************)
(* The indexer data service (indexer-grpc-data-service/src/service.rs):    *)
(* the task that serves one raw_datastream request.                        *)
(***************************************************************************)
MAX_RESPONSE_CHANNEL_SIZE == 40
\* The greatest number of transactions the cache or the file store returns
\* in one batch.
MaxBatchSize == 1
\* The greatest head the cache of the model reaches: enough versions to
\* fill the response channel and go on.
MaxCacheHead == MAX_RESPONSE_CHANNEL_SIZE + 2

notStreamVars == <<storeVars, batchVars, put_result, put_call, progressVars,
                   syncVars, ledger_txns, state_merkle_db, bufferVars,
                   restoreVars, threadVars, sanitize_call, io_pool>>

NoData == [first |-> 0, last |-> -1]
NoFetch == [status |-> "none", channel_full |-> FALSE]

\* data_fetch on a cache that holds the versions cache_low .. cache_head - 1
\* and a file store that holds the versions below file_upto, while the read
\* named by `failing` returns an error.  The cache answers NotReady at or
\* beyond its head, EvictedFromCache below cache_low, and a batch
\* otherwise; only an evicted version is looked up in the file store, where
\* a missing file is the data gap.
data_fetch(starting_version, cache_low, cache_head, file_upto, failing) ==
    LET batch(upto) ==
            [first |-> starting_version,
             last |-> (IF starting_version + MaxBatchSize < upto
                       THEN starting_version + MaxBatchSize ELSE upto) - 1]
    IN  IF failing = "cache" THEN [status |-> "Err", data |-> NoData]
        ELSE IF starting_version >= cache_head
        THEN [status |-> "AheadOfCache", data |-> NoData]
        ELSE IF starting_version >= cache_low
        THEN [status |-> "Success", data |-> batch(cache_head)]
        ELSE IF failing = "file_store" THEN [status |-> "Err", data |-> NoData]
        ELSE IF starting_version < file_upto
        THEN [status |-> "Success", data |-> batch(file_upto)]
        ELSE [status |-> "DataGap", data |-> NoData]

\* The loop after its fetch with a slip: a data gap is retried like an
\* error.
AfterFetchRetriesGap(status) ==
    IF status = "Success" THEN "send"
    ELSE IF status = "AheadOfCache" THEN "sleep_ahead_of_cache"
    ELSE "sleep_error"

\* Where the loop goes after its fetch: on to the send, into the sleep of
\* ahead_of_cache_data_handling or data_fetch_error_handling before
\* `continue`, or out of the loop (break).
AfterFetch(status) ==
    IF status = "Success" THEN "send"
    ELSE IF status = "AheadOfCache" THEN "sleep_ahead_of_cache"
    ELSE IF status = "DataGap" THEN "done"
    ELSE "sleep_error"

Sleeping == {"sleep_ahead_of_cache", "sleep_error", "sleep_channel_full"}

\* The request was accepted: the connection to the cache is up, the chain id
\* was read and the status response with the starting version is in the
\* channel.  The task is about to enter its loop.
InitStream ==
    /\ \E starting_version \in {0, 1}, cache_low \in {0, 2}, file_upto \in {0, 1, 2} :
          \E cache_head \in {cache_low, cache_low + 1, MaxCacheHead} :
             stream = [pc |-> "fetch", current_version |-> starting_version,
                       channel |-> <<[type |-> "status", first |-> starting_version,
                                      last |-> starting_version]>>,
                       rx_open |-> TRUE, data |-> NoData, fetch |-> NoFetch,
                       cache_low |-> cache_low, cache_head |-> cache_head,
                       file_upto |-> file_upto]
    /\ sanitize_call = NoSanitize
    /\ InitStoreClosed

\* Step 1 of the loop: data_fetch(current_version) and the match on its
\* result.
DataFetch ==
    /\ stream.pc = "fetch"
    /\ \E failing \in {"none", "cache", "file_store"} :
          LET r == data_fetch(stream.current_version, stream.cache_low,
                              stream.cache_head, stream.file_upto, failing)
          IN  stream' = [stream EXCEPT
                  !.pc = AfterFetch(r.status),
                  !.data = r.data,
                  !.fetch = [status |-> r.status,
                             channel_full |->
                                 Len(stream.channel) = MAX_RESPONSE_CHANNEL_SIZE]]
    /\ UNCHANGED notStreamVars

\* The push with a slip: current_version moves past the batch also when the
\* channel was full and the batch was dropped.
TrySendAdvancesWhenFull ==
    /\ stream.pc = "send"
    /\ stream' =
          IF ~ stream.rx_open
          THEN [stream EXCEPT !.pc = "done", !.data = NoData]
          ELSE IF Len(stream.channel) = MAX_RESPONSE_CHANNEL_SIZE
          THEN [stream EXCEPT !.pc = "sleep_channel_full",
                              !.current_version = stream.data.last + 1,
                              !.data = NoData]
          ELSE [stream EXCEPT
                  !.pc = "fetch",
                  !.channel = Append(@, [type |-> "data", first |-> stream.data.first,
                                         last |-> stream.data.last]),
                  !.current_version = stream.data.last + 1,
                  !.data = NoData]
    /\ UNCHANGED notStreamVars

\* Step 2 and 3 of the loop: tx.try_send of the batch; when it is taken,
\* current_version moves past the batch; when the channel is full the batch
\* is dropped and the loop sleeps before `continue`; when the receiver is
\* closed the loop ends.
TrySend ==
    /\ stream.pc = "send"
    /\ stream' =
          IF ~ stream.rx_open
          THEN [stream EXCEPT !.pc = "done", !.data = NoData]
          ELSE IF Len(stream.channel) = MAX_RESPONSE_CHANNEL_SIZE
          THEN [stream EXCEPT !.pc = "sleep_channel_full", !.data = NoData]
          ELSE [stream EXCEPT
                  !.pc = "fetch",
                  !.channel = Append(@, [type |-> "data", first |-> stream.data.first,
                                         last |-> stream.data.last]),
                  !.current_version = stream.data.last + 1,
                  !.data = NoData]
    /\ UNCHANGED notStreamVars

\* The sleep is over: `continue` takes the loop back to its fetch.
Wake ==
    /\ stream.pc \in Sleeping
    /\ stream' = [stream EXCEPT !.pc = "fetch"]
    /\ UNCHANGED notStreamVars

\* The client takes a response off the stream.
Receive ==
    /\ stream.pc /= "none"
    /\ stream.rx_open
    /\ stream.channel /= <<>>
    /\ stream' = [stream EXCEPT !.channel = Tail(@)]
    /\ UNCHANGED notStreamVars

\* The client drops the stream: the receiver and what it buffered are gone.
Disconnect ==
    /\ stream.pc /= "none"
    /\ stream.rx_open
    /\ stream' = [stream EXCEPT !.rx_open = FALSE, !.channel = <<>>]
    /\ UNCHANGED notStreamVars

\* The cache worker fills the cache up to the head of the chain.
CacheAdvance ==
    /\ stream.pc /= "none"
    /\ stream.cache_head < MaxCacheHead
    /\ stream' = [stream EXCEPT !.cache_head = MaxCacheHead]
    /\ UNCHANGED notStreamVars

NextStream ==
    \/ DataFetch
    \/ TrySend
    \/ Wake
    \/ Receive
    \/ Disconnect
    \/ CacheAdvance

SpecStream == InitStream /\ [][NextStream]_vars

\* tokio wakes a sleeping task when its timer fires.
SpecStreamFair == SpecStream /\ WF_vars(Wake)

(***************************************************************************)
(* The point read with proof, on a store whose state K/V db is pruned.     *)
(***************************************************************************)
\* StateMerkleDb::get_with_proof_ext: an error when no tree is persisted at
\* `version`; else the leaf of the key in that tree, if any (a set holding at
\* most one leaf), and a proof that commits to the root hash of the tree.
get_with_proof_ext(merkle, state_key, version) ==
    IF version \notin DOMAIN merkle THEN [result |-> "Err"]
    ELSE [result |-> "Ok",
          leaf_data |-> {l \in merkle[version] : l.key = state_key},
          proof |-> [root_hash |-> RootHash(merkle[version]),
                     key_hash |-> KeyHash(state_key)]]

\* The read with a slip: a value missing from the state K/V db is returned
\* as None.
GetWithProofMissingAsNone(rows, merkle, state_key, version) ==
    LET found == get_with_proof_ext(merkle, state_key, version)
    IN  IF found.result /= "Ok" THEN [result |-> "Err"]
        ELSE [result |-> "Ok",
              value |-> IF found.leaf_data = {} THEN None
                        ELSE LET l == CHOOSE x \in found.leaf_data : TRUE
                             IN  get_state_value_by_version(rows, l.key, l.version),
              proof |-> found.proof]

\* StateDb::get_state_value_with_proof_by_version_ext: None when the tree
\* has no leaf for the key, else the value expect_value_by_version reads
\* under the (key, version) of the leaf, whose error is returned by `?`.
get_state_value_with_proof_by_version_ext(rows, merkle, state_key, version) ==
    LET found == get_with_proof_ext(merkle, state_key, version)
    IN  IF found.result /= "Ok" THEN [result |-> "Err"]
        ELSE IF found.leaf_data = {}
        THEN [result |-> "Ok", value |-> None, proof |-> found.proof]
        ELSE LET l == CHOOSE x \in found.leaf_data : TRUE
                 value == expect_value_by_version(rows, l.key, l.version)
             IN  IF value = {} THEN [result |-> "MissingValue"]
                 ELSE [result |-> "Ok", value |-> CHOOSE v \in value : TRUE,
                       proof |-> found.proof]

\* The state K/V pruner at work up to `version`: every stale index with
\* stale_since_version at or before it is consumed and the value it names is
\* deleted.  The trees are pruned on their own and are kept here.  The
\* answer of a read before the pruning is dropped: `query` holds a read of
\* the store as it is.
PruneStateKv ==
    /\ startup.result = "Ok"
    /\ \E version \in DOMAIN ledger_txns :
          LET pruned == {e \in stale_index_db : e.stale_since_version <= version}
          IN  /\ pruned /= {}
              /\ stale_index_db' = stale_index_db \ pruned
              /\ state_kv_db' = {r \in state_kv_db :
                                    ~ \E e \in pruned : /\ e.state_key = r.key
                                                        /\ e.version = r.version}
    /\ query' = NoQuery
    /\ UNCHANGED <<version_data, batchVars, put_result, put_call, progressVars,
                   syncVars, idleVars, treeVars, buffered_state, startup, create_call>>

\* A call of get_state_value_with_proof_by_version_ext on the open store.
GetStateValueWithProofByVersionExt ==
    /\ startup.result = "Ok"
    /\ \E state_key \in Keys, version \in DOMAIN ledger_txns :
          query' = [op |-> "get_state_value_with_proof_by_version_ext",
                    state_key |-> state_key, version |-> version,
                    result |-> get_state_value_with_proof_by_version_ext(
                                   state_kv_db, state_merkle_db, state_key, version)]
    /\ UNCHANGED <<storeVars, batchVars, put_result, put_call, progressVars,
                   syncVars, idleVars, treeVars, buffered_state, startup, create_call>>

NextProofReads == PruneStateKv \/ GetStateValueWithProofByVersionExt

SpecProofReads == InitReads /\ [][NextProofReads]_vars

(***************************************************************************)
(* Properties of the commit path and of the point read.                    *)
(***************************************************************************)
\* The write to `key` with the greatest version at or before `version`: a
\* set holding at most one row.
LatestRow(rows, key, version) ==
    {r \in rows : /\ r.key = key
                  /\ r.version <= version
                  /\ \A o \in rows : (o.key = key /\ o.version <= version)
                                        => o.version <= r.version}

RowBytes(r) == KeySize(r.key) + ValueSize(r.value)

RECURSIVE SumBytes(_)
SumBytes(rows) ==
    IF rows = {} THEN 0
    ELSE LET r == CHOOSE x \in rows : TRUE
         IN  RowBytes(r) + SumBytes(rows \ {r})

\* The live values written at version V, and the live values a write at V
\* overwrites or deletes.
LiveAddedAt(V) == {r \in state_kv_db : r.version = V /\ r.value /= None}
SupersededAt(V) ==
    {p \in state_kv_db :
        /\ p.value /= None
        /\ p \in LatestRow(state_kv_db, p.key, V - 1)
        /\ \E r \in state_kv_db : r.version = V /\ r.key = p.key}

UsageBefore(V) == IF V = 0 THEN UsageZero ELSE version_data[V - 1]

\* C1: the usage stored for every version V is the usage of V - 1 plus one
\* item and key+value bytes per live value written at V, minus one item and
\* key+old value bytes per live value a write at V overwrites or deletes.
C1_UsageIsPreviousPlusDelta ==
    \A V \in DOMAIN version_data :
        /\ V = 0 \/ (V - 1) \in DOMAIN version_data
        /\ version_data[V] =
             Usage(UsageBefore(V).items + Cardinality(LiveAddedAt(V))
                                        - Cardinality(SupersededAt(V)),
                   UsageBefore(V).bytes + SumBytes(LiveAddedAt(V))
                                        - SumBytes(SupersededAt(V)))

\* A committed version that both adds a live value and supersedes one.
C1_Witness ==
    \E V \in DOMAIN version_data :
        V >= 1 /\ LiveAddedAt(V) /= {} /\ SupersededAt(V) /= {}

\* C2: a read of key K at version V returns the value of the latest write to
\* K at or before V: the value if it is live, None if it is a tombstone or
\* if there is no such write.
C2_ReadReturnsLatestWrite ==
    \A K \in Keys, V \in 0 .. NextVersion :
        LET latest == LatestRow(state_kv_db, K, V)
        IN  get_state_value_by_version(state_kv_db, K, V) =
              IF latest = {} THEN None ELSE (CHOOSE r \in latest : TRUE).value

\* A key with a live value and a later tombstone, and rows of another key.
C2_Witness ==
    \E a \in state_kv_db, b \in state_kv_db, c \in state_kv_db :
        /\ a.key = b.key /\ a.version < b.version
        /\ a.value /= None /\ b.value = None
        /\ c.key /= a.key

\* The writes that are tombstones or have been overwritten by a later write.
StaleWrites ==
    {r \in state_kv_db :
        \/ r.value = None
        \/ \E o \in state_kv_db : o.key = r.key /\ o.version > r.version}

StaleEntriesOf(r) ==
    {e \in stale_index_db : e.state_key = r.key /\ e.version = r.version}

\* C3: every stale index {s, v, K} has s >= v and belongs to a write to K at
\* v that is a tombstone or was overwritten later; every such write has
\* exactly one stale index and no other write has any.
C3_StaleIndexOnePerStaleWrite ==
    /\ \A e \in stale_index_db :
          /\ e.stale_since_version >= e.version
          /\ \E r \in StaleWrites : e.state_key = r.key /\ e.version = r.version
    /\ \A r \in state_kv_db :
          Cardinality(StaleEntriesOf(r)) = IF r \in StaleWrites THEN 1 ELSE 0

\* A tombstone that was overwritten, next to an overwritten live value.
C3_Witness ==
    \E r \in state_kv_db, o \in state_kv_db, l \in StaleWrites :
        /\ r.value = None /\ o.key = r.key /\ o.version > r.version
        /\ l.value /= None
        /\ StaleEntriesOf(l) /= {}

\* The end-to-end example: [{A:1},{A:2},{A:None}] at versions 10, 11, 12.
ExampleBatch == <<(1 :> 1), (1 :> 2), (1 :> None)>>
ExampleRows ==
    {[key |-> 1, version |-> 10, value |-> 1],
     [key |-> 1, version |-> 11, value |-> 2],
     [key |-> 1, version |-> 12, value |-> None]}
ExampleStale ==
    {[stale_since_version |-> 11, version |-> 10, state_key |-> 1],
     [stale_since_version |-> 12, version |-> 11, state_key |-> 1],
     [stale_since_version |-> 12, version |-> 12, state_key |-> 1]}

StagedValues == UNION {sharded_state_kv_batches[s].values : s \in Shards}
StagedStale == UNION {sharded_state_kv_batches[s].stale : s \in Shards}

\* The example is being committed on a store whose state is empty.
ExampleCall ==
    /\ put_call.first_version = 10
    /\ put_call.value_state_sets = ExampleBatch
    /\ put_call.expected_usage \in {Untracked, UsageZero}
    /\ state_kv_db = {}

\* What the example yields, in the batches of a call that succeeded.
ExampleStaged ==
    /\ put_result = "Ok"
    /\ ledger_batch[12] = UsageZero
    /\ StagedStale = ExampleStale
    /\ StagedValues = ExampleRows

\* What the example yields, in the stores.
ExampleCommitted ==
    /\ version_data[12] = UsageZero
    /\ stale_index_db = ExampleStale
    /\ get_state_value_by_version(state_kv_db, 1, 11) = 2
    /\ get_state_value_by_version(state_kv_db, 1, 12) = None

\* In the batches of a successful call every stale index of an old value
\* names the write just before it, in the batch or before the batch.
SupersedesPrecedingWrite ==
    put_result = "Ok" =>
        \A e \in StagedStale :
            e.version < e.stale_since_version =>
                \E r \in LatestRow(state_kv_db \cup StagedValues, e.state_key,
                                   e.stale_since_version - 1) :
                    r.version = e.version /\ r.value /= None

LastVersionOfCall == put_call.first_version + Len(put_call.value_state_sets) - 1

\* C5: a call that got past the usage of its base version fails exactly
\* when its expected usage is tracked and differs from the usage computed
\* after the last version of the batch.
C5_MismatchOfTrackedUsageFails ==
    (put_result /= "none" /\ put_result /= "NotFound") =>
        /\ LastVersionOfCall \in DOMAIN ledger_batch
        /\ put_result = "UsageMismatch" <=>
             /\ ~ is_untracked(put_call.expected_usage)
             /\ put_call.expected_usage /= ledger_batch[LastVersionOfCall]

\* A tracked expected usage with the right item count and other bytes.
C5_Witness ==
    /\ put_result = "UsageMismatch"
    /\ put_call.expected_usage.items = ledger_batch[LastVersionOfCall].items

\* C6 as stated: after a usage mismatch the batches hold nothing of the call.
C6_BatchesUntouchedOnMismatch ==
    put_result = "UsageMismatch" =>
        /\ ledger_batch = EmptyMap
        /\ sharded_state_kv_batches = EmptyBatches

\* C6 as amended: after a usage mismatch the batches hold no state value of
\* the call, but they hold its usage record of every version and the stale
\* index of every tombstone it writes.
C6_OnlyValuesMissingOnMismatch ==
    put_result = "UsageMismatch" =>
        /\ StagedValues = {}
        /\ DOMAIN ledger_batch = put_call.first_version .. LastVersionOfCall
        /\ \A i \in 1 .. Len(put_call.value_state_sets) :
              \A k \in DOMAIN put_call.value_state_sets[i] :
                 put_call.value_state_sets[i][k] = None =>
                    LET v == put_call.first_version + (i - 1)
                    IN  [stale_since_version |-> v, version |-> v, state_key |-> k]
                           \in StagedStale

\* A failed call that wrote values and left stale indices in the batches.
C6_Witness ==
    /\ put_result = "UsageMismatch"
    /\ StagedStale /= {}
    /\ \E i \in 1 .. Len(put_call.value_state_sets) :
          DOMAIN put_call.value_state_sets[i] /= {}

(***************************************************************************)
(* Properties of the crash recovery.                                       *)
(***************************************************************************)
\* The stores hold what the crash left: nothing was truncated.
LedgerUntouched ==
    /\ ~ sync_call.truncated_ledger
    /\ ledger_commit_progress = sync_call.ledger_before
    /\ version_data = CrashVersionData(overall_commit_progress, sync_call.ledger_before)
StateKvUntouched ==
    /\ ~ sync_call.truncated_state_kv
    /\ state_kv_commit_progress = sync_call.state_kv_before
    /\ state_kv_db = CrashRows(overall_commit_progress, sync_call.state_kv_before)
    /\ stale_index_db = CrashStale(overall_commit_progress, sync_call.state_kv_before)

\* The stores hold nothing after the overall progress.
LedgerAtOverall ==
    /\ ledger_commit_progress = overall_commit_progress
    /\ \A v \in DOMAIN version_data : v <= overall_commit_progress
StateKvAtOverall ==
    /\ state_kv_commit_progress = overall_commit_progress
    /\ \A r \in state_kv_db : r.version <= overall_commit_progress
    /\ \A e \in stale_index_db : e.stale_since_version <= overall_commit_progress

\* C7: when sync_commit_progress returns with an overall progress stored,
\* the ledger, state K/V and overall progress are equal and no store holds a
\* later version; a store that was at the overall progress is not truncated.
C7_ProgressConvergesToOverall ==
    (sync_result = "Ok" /\ overall_commit_progress /= NoProgress) =>
        /\ LedgerAtOverall
        /\ StateKvAtOverall
        /\ sync_call.truncated_ledger <=>
              sync_call.ledger_before /= overall_commit_progress
        /\ sync_call.truncated_state_kv <=>
              sync_call.state_kv_before /= overall_commit_progress

\* Ledger at 105, state K/V at 103 and overall at 100 ended at 100.
C7_Witness ==
    /\ sync_result = "Ok"
    /\ overall_commit_progress = 100
    /\ sync_call.ledger_before = 105
    /\ sync_call.state_kv_before = 103
    /\ ledger_commit_progress = 100
    /\ state_kv_commit_progress = 100

\* C8: with the ledger or the state K/V progress below the overall
\* progress, sync_commit_progress panics and no store is modified.
C8_ProgressBelowOverallPanicsUntouched ==
    (/\ sync_result /= "none"
     /\ overall_commit_progress /= NoProgress
     /\ \/ sync_call.ledger_before < overall_commit_progress
        \/ sync_call.state_kv_before < overall_commit_progress) =>
        /\ sync_result = "Panic"
        /\ LedgerUntouched
        /\ StateKvUntouched

\* The ledger db was ahead and the state K/V db behind.
C8_Witness ==
    /\ sync_result = "Panic"
    /\ sync_call.ledger_before > overall_commit_progress
    /\ sync_call.state_kv_before /= NoProgress
    /\ sync_call.state_kv_before < overall_commit_progress

LedgerDifference == sync_call.ledger_before - overall_commit_progress
StateKvDifference == sync_call.state_kv_before - overall_commit_progress

\* The call found an overall progress and both stores at or after it.
SyncRanPastChecks ==
    /\ sync_result /= "none"
    /\ overall_commit_progress /= NoProgress
    /\ sync_call.ledger_before >= overall_commit_progress
    /\ sync_call.state_kv_before >= overall_commit_progress

\* C9: in strict mode the recovery panics exactly when the ledger or the
\* state K/V progress is more than MAX_COMMIT_PROGRESS_DIFFERENCE past the
\* overall progress, and a store that far ahead is not truncated.
C9_StrictModeRefusesBeyondBound ==
    (SyncRanPastChecks /\ sync_call.crash_if_difference_is_too_large) =>
        /\ sync_result = "Panic" <=>
              \/ LedgerDifference > MAX_COMMIT_PROGRESS_DIFFERENCE
              \/ StateKvDifference > MAX_COMMIT_PROGRESS_DIFFERENCE
        /\ LedgerDifference > MAX_COMMIT_PROGRESS_DIFFERENCE => LedgerUntouched
        /\ StateKvDifference > MAX_COMMIT_PROGRESS_DIFFERENCE => StateKvUntouched

\* A difference of exactly the bound was truncated in strict mode.
C9_Witness ==
    /\ sync_result = "Ok"
    /\ sync_call.crash_if_difference_is_too_large
    /\ overall_commit_progress /= NoProgress
    /\ LedgerDifference = MAX_COMMIT_PROGRESS_DIFFERENCE
    /\ sync_call.truncated_ledger
    /\ ledger_commit_progress = overall_commit_progress

\* C10: without the strict flag a difference of any size is truncated.
C10_LenientModeTruncatesAnyDifference ==
    (SyncRanPastChecks /\ ~ sync_call.crash_if_difference_is_too_large) =>
        /\ sync_result = "Ok"
        /\ LedgerAtOverall
        /\ StateKvAtOverall

\* A difference of twice the bound was truncated.
C10_Witness ==
    /\ sync_result = "Ok"
    /\ ~ sync_call.crash_if_difference_is_too_large
    /\ overall_commit_progress /= NoProgress
    /\ StateKvDifference = 2 * MAX_COMMIT_PROGRESS_DIFFERENCE
    /\ sync_call.truncated_state_kv
    /\ StateKvAtOverall

(***************************************************************************)
(* Properties of the startup, of reset and of the snapshot lookup.         *)
(***************************************************************************)
\* The greatest of `snapshots` below next_version, or NoVersion.
SnapshotBefore(snapshots, next_version) ==
    LET below == {v \in snapshots : v < next_version}
    IN  IF below = {} THEN NoVersion
        ELSE CHOOSE v \in below : \A o \in below : o <= v

\* The latest version of the ledger, or NoVersion.
LastVersion == NumTransactions(ledger_txns) - 1

\* The snapshot the last reconstruction started from.
SnapshotFound == SnapshotBefore(create_call.snapshots_before, NumTransactions(ledger_txns))

\* The state checkpoints among the versions the last reconstruction had to
\* replay.
CheckpointsToReplay ==
    {v \in (SnapshotFound + 1) .. LastVersion : ledger_txns[v].is_state_checkpoint}

\* The usage on record for `version`.
UsageAt(version) == IF version < 0 THEN UsageZero ELSE version_data[version]

\* C11: StateStore::new runs sync_commit_progress exactly once, and the run
\* has returned, truncation included, before the buffered state is built,
\* a write set replayed or the store used: a built buffered state sees the
\* stores at the overall commit progress.
C11_SyncCompletesBeforeBufferedState ==
    /\ startup.sync_runs <= 1
    /\ (buffered_state.built \/ create_call.op \in {"new", "reset"}
          \/ startup.result = "Ok") =>
          /\ startup.sync_runs = 1
          /\ sync_result = "Ok"
          /\ overall_commit_progress /= NoProgress =>
                /\ ledger_commit_progress = overall_commit_progress
                /\ state_kv_commit_progress = overall_commit_progress
                /\ LastVersion <= overall_commit_progress
                /\ (create_call.op = "new" /\ create_call.returned.built) =>
                      create_call.returned.current_version <= overall_commit_progress

\* The store is open after a startup that truncated the ledger db.
C11_Witness ==
    /\ startup.result = "Ok"
    /\ buffered_state.built
    /\ sync_call.truncated_ledger
    /\ create_call.op = "new"

\* C16: a reconstruction that replays fails exactly when the check is on
\* and more than MAX_WRITE_SETS_AFTER_SNAPSHOT versions follow the snapshot;
\* new and reset panic on the failure; a count up to the bound, or any count
\* with the check off, is replayed up to the latest version.
C16_TooManyVersionsExactlyBeyondBound ==
    (create_call.op /= "none" /\ ~ create_call.hack_for_tests) =>
        LET count == NumTransactions(ledger_txns) - (SnapshotFound + 1)
        IN  /\ create_call.result /= "Ok" <=>
                    (create_call.check_max_versions_after_snapshot
                       /\ count > MAX_WRITE_SETS_AFTER_SNAPSHOT)
            /\ (create_call.result /= "Ok" /\ create_call.op \in {"new", "reset"}) =>
                    startup.result = "Panic"
            /\ create_call.result = "Ok" =>
                    create_call.returned.current_version = LastVersion

\* StateStore::new panicked on one version more than the bound.
C16_Witness ==
    /\ create_call.op = "new"
    /\ create_call.result = "TooManyVersions"
    /\ NumTransactions(ledger_txns) - (SnapshotFound + 1) = MAX_WRITE_SETS_AFTER_SNAPSHOT + 1
    /\ startup.result = "Panic"

\* C17: a replay of the versions S+1..L after the snapshot S ends with the
\* current state at L; with a state checkpoint among them, the last one, C,
\* is the base and its tree is persisted when the reconstruction returns;
\* without one the base stays at S.
C17_ReplaySplitsAtLastCheckpoint ==
    (create_call.op /= "none" /\ ~ create_call.hack_for_tests
       /\ create_call.result = "Ok" /\ SnapshotFound < LastVersion) =>
        /\ create_call.returned.current_version = LastVersion
        /\ create_call.returned.current = RootHash(LeavesAt(state_kv_db, LastVersion))
        /\ IF CheckpointsToReplay = {}
           THEN create_call.returned.base_version = SnapshotFound
           ELSE LET C == CHOOSE v \in CheckpointsToReplay :
                             \A o \in CheckpointsToReplay : o <= v
                IN  /\ create_call.returned.base_version = C
                    /\ C \in DOMAIN state_merkle_db
                    /\ RootHash(state_merkle_db[C]) = RootHash(LeavesAt(state_kv_db, C))
                    /\ create_call.returned.base = RootHash(state_merkle_db[C])

\* A replay over two state checkpoints that ends after the last of them.
C17_Witness ==
    /\ create_call.op = "new"
    /\ ~ create_call.hack_for_tests
    /\ create_call.result = "Ok"
    /\ Cardinality(CheckpointsToReplay) = 2
    /\ create_call.returned.base_version < create_call.returned.current_version
    /\ create_call.returned.base_version \notin create_call.snapshots_before

\* After reset the buffered state is the state of the persisted stores:
\* based on the latest persisted snapshot, current at the latest version.
ResetBuildsPersistedState ==
    (create_call.op = "reset" /\ create_call.result = "Ok") =>
        LET S == SnapshotBefore(DOMAIN state_merkle_db, NumTransactions(ledger_txns))
        IN  /\ buffered_state.base_version = S
            /\ buffered_state.base = IF S = NoVersion THEN SPARSE_MERKLE_PLACEHOLDER_HASH
                                     ELSE RootHash(state_merkle_db[S])
            /\ buffered_state.current_version = LastVersion
            /\ buffered_state.current = RootHash(LeavesAt(state_kv_db, LastVersion))
            /\ buffered_state.current_usage = UsageAt(LastVersion)

\* A reset that follows a reset changes nothing.
ResetTwiceIsResetOnce ==
    (create_call.op = "reset" /\ create_call.result = "Ok" /\ create_call'.op = "reset") =>
        /\ buffered_state' = buffered_state
        /\ state_merkle_db' = state_merkle_db

\* C18: reset replaces the buffered state, whatever it held, by the one a
\* non-test reconstruction builds from the persisted stores, and a second
\* reset with no commit in between leaves the result of the first.
C18_ResetReplacesWholesale ==
    [] ResetBuildsPersistedState /\ [][ResetTwiceIsResetOnce]_vars

\* A reset dropped a buffered state that was ahead of the ledger.
C18_Witness ==
    /\ create_call.op = "reset"
    /\ create_call.result = "Ok"
    /\ create_call.replaced.current_version > buffered_state.current_version
    /\ buffered_state.base_version < buffered_state.current_version

\* C20: get_state_snapshot_before(next_version) returns the greatest
\* persisted snapshot version below next_version with the root hash of the
\* tree of that version, and None when no snapshot is below next_version.
C20_SnapshotBeforeIsGreatestBelow ==
    query.op = "get_state_snapshot_before" =>
        LET below == {v \in DOMAIN state_merkle_db : v < query.next_version}
        IN  /\ query.result.result = "Ok"
            /\ IF below = {} THEN query.result.value = {}
               ELSE \E r \in query.result.value :
                       /\ query.result.value = {r}
                       /\ r.version \in below
                       /\ \A o \in below : o <= r.version
                       /\ r.root_hash = RootHash(state_merkle_db[r.version])
                       /\ r.root_hash = RootHash(LeavesAt(state_kv_db, r.version))

\* A lookup that skipped versions without a snapshot and passed over an
\* older snapshot of another root hash.
C20_Witness ==
    /\ query.op = "get_state_snapshot_before"
    /\ \E r \in query.result.value :
          /\ r.version < query.next_version - 1
          /\ \E o \in DOMAIN state_merkle_db :
                o < r.version /\ RootHash(state_merkle_db[o]) /= r.root_hash

\* A lookup at version 0 found nothing.
C20_WitnessNone ==
    /\ query.op = "get_state_snapshot_before"
    /\ query.next_version = 0
    /\ query.result.value = {}
    /\ DOMAIN state_merkle_db /= {}

\* The leaf with `rank` leaves of a smaller key hash before it.
LeafOfRank(leaves, rank) ==
    CHOOSE l \in leaves :
        Cardinality({o \in leaves : o.key_hash < l.key_hash}) = rank

\* C12: get_value_chunk_with_proof returns the leaves of the tree of
\* `version` in key-hash order from first_index: n entries with
\* 1 <= n <= chunk_size (all that are left when fewer than chunk_size are),
\* first_index echoed, last_index = first_index + n - 1, the key hashes of the
\* first and last entry and the root hash of the version; it fails with
\* NotFound when no leaf is at first_index or chunk_size is 0.
C12_ChunkIsLeavesFromFirstIndex ==
    query.op = "get_value_chunk_with_proof" =>
        LET leaves == state_merkle_db[query.version]
            left == Cardinality(leaves) - query.first_index
            r == query.result
        IN  IF left <= 0 \/ query.chunk_size = 0 THEN r.result = "NotFound"
            ELSE LET n == Len(r.raw_values)
                 IN  /\ r.result = "Ok"
                     /\ n >= 1 /\ n <= query.chunk_size
                     /\ n = IF left < query.chunk_size THEN left ELSE query.chunk_size
                     /\ r.first_index = query.first_index
                     /\ r.last_index = query.first_index + n - 1
                     /\ \A i \in 1 .. n :
                           LET l == LeafOfRank(leaves, query.first_index + i - 1)
                           IN  /\ r.raw_values[i].key = l.key
                               /\ ValueHash(r.raw_values[i].value) = l.value_hash
                     /\ r.first_key = KeyHash(r.raw_values[1].key)
                     /\ r.last_key = KeyHash(r.raw_values[n].key)
                     /\ r.root_hash = RootHash(leaves)

\* A chunk that starts after the first leaf and ends with the tree, short
\* of chunk_size, with the keys in another order than their hashes.
C12_Witness ==
    /\ query.op = "get_value_chunk_with_proof"
    /\ query.result.result = "Ok"
    /\ query.first_index = 1
    /\ Len(query.result.raw_values) < query.chunk_size
    /\ Cardinality(state_merkle_db[query.version]) = 2

\* A chunk of size 0 asked of a tree with leaves.
C12_WitnessNotFound ==
    /\ query.op = "get_value_chunk_with_proof"
    /\ query.chunk_size = 0
    /\ query.first_index = 0
    /\ state_merkle_db[query.version] /= {}
    /\ query.result.result = "NotFound"

(***************************************************************************)
(* Properties of the snapshot restore.                                     *)
(***************************************************************************)
\* The tree the transfer reads and the rows a restore of it writes.
SourceLeaves == state_merkle_db[transfer.version]
SourceRows ==
    {[key |-> l.key, version |-> transfer.version, value |-> ValueOfHash(l.value_hash)] :
        l \in SourceLeaves}

\* The rows and leaves of the source tree up to a key hash.
SourceRowsUpTo(key_hash) == {r \in SourceRows : KeyHash(r.key) <= key_hash}
SourceLeavesUpTo(key_hash) == {l \in SourceLeaves : l.key_hash <= key_hash}

\* The greatest key hash among rows or leaves.
MaxKeyHash(hashes) == CHOOSE h \in hashes : \A o \in hashes : o <= h

\* C13: when every chunk of the tree of version V, exported by
\* get_value_chunk_with_proof from index 0 on, is imported in order through
\* the receiver of get_snapshot_receiver(V, root), no chunk is refused and
\* the finished restore has the root hash of the source at V.
C13_RoundTripReproducesRootHash ==
    receiver.open =>
        /\ ~ receiver.failed
        /\ receiver.finished =>
              /\ get_root_hash(restore_db.state_merkle, receiver.version) =
                    get_root_hash(state_merkle_db, receiver.version)
              /\ get_root_hash(restore_db.state_merkle, receiver.version) =
                    {receiver.expected_root_hash}

\* A restore of a tree of two leaves finished after two chunks, no crash.
C13_Witness ==
    /\ receiver.open /\ receiver.finished
    /\ transfer.crashes = 0
    /\ transfer.chunk_size = 1
    /\ Cardinality(SourceLeaves) = 2
    /\ transfer.sent = {0, 1}

\* C14: a chunk delivered again to a resumed session is not applied twice:
\* at every point the restored rows and leaves are the leaves of the source
\* up to a key hash, each once, the progress counts exactly the restored
\* rows, and the finished restore has the usage and root hash of the source.
C14_RedeliveredChunkIsNotAppliedTwice ==
    transfer.version /= NoVersion =>
        LET V == transfer.version
            rows == restore_db.state_kv
            leaves == RestoredLeaves(restore_db, V)
            progress == IF V \in DOMAIN restore_db.metadata
                        THEN {restore_db.metadata[V]} ELSE {}
        IN  /\ progress = {} => rows = {}
            /\ \A p \in progress :
                  /\ rows = SourceRowsUpTo(p.key_hash)
                  /\ p.key_hash = MaxKeyHash({KeyHash(r.key) : r \in rows})
                  /\ p.usage = Usage(Cardinality(rows), SumBytes(rows))
            /\ leaves /= {} =>
                  RootHash(leaves) =
                      RootHash(SourceLeavesUpTo(MaxKeyHash({l.key_hash : l \in leaves})))
            /\ (receiver.open /\ receiver.finished) =>
                  /\ RootHash(leaves) = RootHash(SourceLeaves)
                  /\ rows = SourceRows
                  /\ restore_db.version_data[V] = Usage(Cardinality(SourceRows),
                                                        SumBytes(SourceRows))

\* A resumed session finished after it was handed a chunk a second time,
\* part of which was stored before the crash.
C14_Witness ==
    /\ receiver.open /\ receiver.finished
    /\ transfer.crashes > 0
    /\ transfer.redelivered
    /\ Cardinality(SourceLeaves) = 2

\* C15: the progress of a target version is stored with the values of the
\* chunk that carried it or not at all: get_progress returns the progress
\* of the last chunk written, whose values are all stored, also after a
\* crash, and None for a version no chunk was written for.
C15_ProgressStoredWithItsChunk ==
    \A v \in DOMAIN state_merkle_db \cup {transfer.version} :
        IF transfer.last_written = NoChunk \/ v /= transfer.version
        THEN get_progress(restore_db, v) = {}
        ELSE /\ get_progress(restore_db, v) = {transfer.last_written.progress}
             /\ transfer.last_written.node_batch \subseteq restore_db.state_kv

\* The node crashed with the values of a chunk stored but not its leaves;
\* the progress of that chunk is what get_progress returns.
C15_Witness ==
    /\ ~ receiver.open
    /\ transfer.crashes > 0
    /\ transfer.last_written /= NoChunk
    /\ get_progress(restore_db, transfer.version) = {transfer.last_written.progress}
    /\ RestoredLeaves(restore_db, transfer.version) = {}

(***************************************************************************)
(* Properties of reset among committing threads.                           *)
(***************************************************************************)
\* No thread is inside an operation.
AllIdle == lock = NoThread /\ \A t \in Threads : thread_state[t].pc = "idle"

\* C19 as stated: update and reset are serialized by the Mutex of the
\* buffered state: the reconstruction of a reset never runs while another
\* thread holds the Mutex for an update, and a reset never stores over a
\* buffered state that advanced after its reconstruction read the stores.
C19_ResetSerializedWithUpdate ==
    \A t \in Threads :
        thread_state[t].pc = "reset_created" =>
            /\ thread_state[t].holder = NoThread
            /\ buffered_state = thread_state[t].seen

\* What the serialization is for: between operations the buffered state is
\* current at the latest version of the ledger.
BufferedStateFollowsLedger ==
    AllIdle => buffered_state.current_version = LastVersion

(***************************************************************************)
(* Further properties of the point read and of put_stats_and_indices.      *)
(***************************************************************************)
\* The rows of key K at or before version V.
RowsAtOrBefore(K, V) == {r \in state_kv_db : r.key = K /\ r.version <= V}

\* The rows of other keys of the shard of K that follow (K, V) in the
\* iteration order of the shard.
OtherRowsAfter(K, V) ==
    {r \in state_kv_db : /\ r.key /= K
                         /\ get_shard_id(r.key) = get_shard_id(K)
                         /\ RowLE(K, V, r.key, r.version)}

\* C21: a point read of key K at version V returns None when K has no entry
\* at or before V, whatever entries other keys of the shard have after
\* (K, V), and a returned (version, value) is an entry of K with
\* version <= V.
C21_PointReadStaysOnItsKey ==
    \A K \in Keys, V \in 0 .. NextVersion :
        LET found == get_state_value_with_version_by_version(state_kv_db, K, V)
        IN  /\ RowsAtOrBefore(K, V) = {} => found = {}
            /\ \A f \in found :
                  /\ f.version <= V
                  /\ \E r \in RowsAtOrBefore(K, V) :
                        r.version = f.version /\ r.value = f.value

\* A key with no entry at or before a version, next to a live entry of
\* another key of its shard that follows in iteration order.
C21_Witness ==
    \E K \in Keys, V \in 0 .. NextVersion :
        /\ RowsAtOrBefore(K, V) = {}
        /\ \E r \in OtherRowsAfter(K, V) : r.value /= None
        /\ \E r \in state_kv_db : r.key = K

\* The first value set of the call in progress as rows at its first version,
\* and the live values of the store that it overwrites or deletes.
FirstSetRows ==
    {[key |-> k, version |-> put_call.first_version,
      value |-> put_call.value_state_sets[1][k]] :
        k \in DOMAIN put_call.value_state_sets[1]}
FirstSetSuperseded ==
    {p \in state_kv_db :
        /\ p.value /= None
        /\ p.key \in DOMAIN put_call.value_state_sets[1]
        /\ p \in LatestRow(state_kv_db, p.key, put_call.first_version - 1)}

\* The usage of the first version of the call when the computation starts
\* from `base`.
FirstUsageFrom(base) ==
    LET added == {r \in FirstSetRows : r.value /= None}
    IN  Usage(base.items + Cardinality(added) - Cardinality(FirstSetSuperseded),
              base.bytes + SumBytes(added) - SumBytes(FirstSetSuperseded))

\* No usage record is stored at the version before the call.
NoBaseRecord ==
    put_call.first_version > 0 /\ (put_call.first_version - 1) \notin DOMAIN version_data

C22_WitnessNotFound ==
    /\ put_result = "NotFound"
    /\ put_call.first_version = 10
    /\ version_data = EmptyMap

\* A storage read that the call in progress performs has failed: the usage
\* of the base version, or the state value of a key of the batch after the
\* usage was read.
FailedRead ==
    /\ put_result /= "none"
    /\ put_call.first_version > 0
    /\ \/ put_call.fault.read = "get_usage"
       \/ /\ put_call.fault.read = "get_state_value"
          /\ (put_call.first_version - 1) \in DOMAIN version_data
          /\ put_call.fault.key \in KeySet(put_call.value_state_sets)

\* C23: a storage read failure during a commit comes back from
\* put_value_sets as an error result; the call does not panic.
C23_ReadFailureIsReturned ==
    FailedRead => put_result = "IoError"

\* The writes of the call in progress as rows, and its versions.
CallRows ==
    {[key |-> k, version |-> put_call.first_version + (i - 1),
      value |-> put_call.value_state_sets[i][k]] :
        <<i, k>> \in {<<j, l>> \in (1 .. Len(put_call.value_state_sets)) \X Keys :
                        l \in DOMAIN put_call.value_state_sets[j]}}
CallVersions == put_call.first_version .. LastVersionOfCall

\* The call in progress got past the usage of its base version.
CallStaged == put_result \in {"Ok", "UsageMismatch"}

\* The latest write to the key of `w` before it, in the batch or in the
\* store: a set holding at most one row.
PreviousWrite(w) == LatestRow(state_kv_db \cup CallRows, w.key, w.version - 1)
HasLivePrevious(w) == \E p \in PreviousWrite(w) : p.value /= None

\* The usage staged for the version before V, or the usage the call started
\* from.
StagedUsageBefore(V) ==
    IF V > put_call.first_version THEN ledger_batch[V - 1]
    ELSE IF V = 0 THEN UsageZero ELSE version_data[V - 1]

\* The stale indices staged for key K that name the write at `version`.
StagedEntriesOf(K, version) ==
    {e \in StagedStale : e.state_key = K /\ e.version = version}

\* C29: a tombstone written for key K at version V has exactly the stale
\* index {V, V, K}, whether or not K had a live value before; a version
\* that only deletes keys with no live value has the usage of the version
\* before it.
C29_TombstoneIsStaleFromBirth ==
    CallStaged =>
        /\ \A w \in CallRows :
              w.value = None =>
                 StagedEntriesOf(w.key, w.version) =
                    {[stale_since_version |-> w.version, version |-> w.version,
                      state_key |-> w.key]}
        /\ \A V \in CallVersions :
              (\A w \in CallRows : w.version = V =>
                                      w.value = None /\ ~ HasLivePrevious(w))
                 => ledger_batch[V] = StagedUsageBefore(V)

\* A call that deletes a key with a live value and a key without one, the
\* latter at a version that writes nothing else, on a store with usage.
C29_Witness ==
    /\ put_result = "Ok"
    /\ \E w \in CallRows : w.value = None /\ HasLivePrevious(w)
    /\ \E w \in CallRows :
          /\ w.value = None /\ ~ HasLivePrevious(w)
          /\ \A o \in CallRows : o.version = w.version => o = w
          /\ StagedUsageBefore(w.version) /= UsageZero

\* The live values the writes of version V supersede.
SupersededBy(V) ==
    UNION {{p \in PreviousWrite(w) : p.value /= None} :
              w \in {x \in CallRows : x.version = V}}

\* C30: a write to key K at version V has a stale index {V, old_version, K}
\* of the previous write exactly when the latest previous write to K, in the
\* batch or before it, is a live value; then old_version < V is the version
\* of that write and its size is taken off the usage.  Otherwise no stale
\* index of an old value is staged and nothing is taken off.
C30_OldValueIndexedIffLive ==
    CallStaged =>
        /\ \A w \in CallRows :
              {e \in StagedStale : /\ e.state_key = w.key
                                   /\ e.stale_since_version = w.version
                                   /\ e.version /= w.version} =
                 {[stale_since_version |-> w.version, version |-> p.version,
                   state_key |-> w.key] :
                     p \in {q \in PreviousWrite(w) : q.value /= None}}
        /\ \A e \in StagedStale :
              e.version /= e.stale_since_version => e.version < e.stale_since_version
        /\ \A V \in CallVersions :
              LET added == {w \in CallRows : w.version = V /\ w.value /= None}
              IN  ledger_batch[V] =
                     Usage(StagedUsageBefore(V).items + Cardinality(added)
                                                    - Cardinality(SupersededBy(V)),
                           StagedUsageBefore(V).bytes + SumBytes(added)
                                                    - SumBytes(SupersededBy(V)))

\* A call with a write over a live value of the store, a write over a live
\* value of the batch, a write over a tombstone and a write to a key never
\* written.
C30_Witness ==
    /\ put_result = "Ok"
    /\ \E w \in CallRows : \E p \in PreviousWrite(w) :
          p.value /= None /\ p \in state_kv_db
    /\ \E w \in CallRows : \E p \in PreviousWrite(w) :
          p.value /= None /\ p \in CallRows
    /\ \E w \in CallRows : \E p \in PreviousWrite(w) : p.value = None
    /\ \E w \in CallRows : PreviousWrite(w) = {}

(***************************************************************************)
(* Properties of SafetyRulesConfig::sanitize.                              *)
(***************************************************************************)
Sanitized == sanitize_call.result /= NoSanitize
SanitizeFailed == sanitize_call.result.result = "ConfigSanitizerFailed"

\* C26: sanitize returns Ok for every node that is not a validator, on any
\* chain and with any backend, service, test config and initial safety
\* rules config.
C26_NonValidatorsPass ==
    (Sanitized /\ sanitize_call.node_role /= "Validator") =>
        sanitize_call.result = SanitizeOk

\* A fullnode on mainnet whose config fails every check made of validators.
C26_Witness ==
    /\ sanitize_call.result = SanitizeOk
    /\ sanitize_call.node_role = "FullNode"
    /\ sanitize_call.chain_id = "mainnet"
    /\ sanitize_call.safety_rules =
          [backend |-> "InMemoryStorage", service |-> "Serializer", test |-> "Some",
           initial_safety_rules_config |-> "None"]

\* C27: for a validator on mainnet sanitize returns ConfigSanitizerFailed
\* whenever the backend is in-memory or GitHub, or the service is not
\* Local, or a test config is present.
C27_MainnetValidatorChecks ==
    (/\ Sanitized
     /\ sanitize_call.node_role = "Validator"
     /\ sanitize_call.chain_id = "mainnet"
     /\ \/ sanitize_call.safety_rules.backend \in {"InMemoryStorage", "GitHub"}
        \/ sanitize_call.safety_rules.service /= "Local"
        \/ sanitize_call.safety_rules.test = "Some") =>
        SanitizeFailed

\* A mainnet validator that is rejected for its test config alone.
C27_Witness ==
    /\ SanitizeFailed
    /\ sanitize_call.node_role = "Validator"
    /\ sanitize_call.chain_id = "mainnet"
    /\ sanitize_call.safety_rules =
          [backend |-> "Vault", service |-> "Local", test |-> "Some",
           initial_safety_rules_config |-> "FromFile"]

\* C28: for a validator on any chain sanitize returns ConfigSanitizerFailed
\* when initial_safety_rules_config is None; the default SafetyRulesConfig
\* is such a config.
C28_ValidatorNeedsInitialConfig ==
    /\ DefaultSafetyRulesConfig.initial_safety_rules_config = "None"
    /\ (/\ Sanitized
        /\ sanitize_call.node_role = "Validator"
        /\ sanitize_call.safety_rules.initial_safety_rules_config = "None") =>
          SanitizeFailed

\* A validator off mainnet that is rejected for its missing initial config
\* alone.
C28_Witness ==
    /\ SanitizeFailed
    /\ sanitize_call.node_role = "Validator"
    /\ sanitize_call.chain_id = "testnet"
    /\ sanitize_call.safety_rules =
          [backend |-> "OnDiskStorage", service |-> "Local", test |-> "None",
           initial_safety_rules_config |-> "None"]
    /\ sanitize_call.result.message =
          "The initial safety rules config must be set for validators!"

(***************************************************************************)
(* Properties of the raw_datastream loop.                                  *)
(***************************************************************************)
\* C24: the server makes no fetch from the cache or the file store while
\* the response channel is full; after the channel was found full it
\* fetches again only once the channel is no longer full.
C24_NoFetchWhileChannelFull ==
    ~ stream.fetch.channel_full

\* A step of the loop from its fetch to what follows it.
FetchStep == stream.pc = "fetch" /\ stream'.pc /= "fetch"

\* The version to fetch is at or beyond the head of the cache; it is missing
\* from both the cache and the file store.
AheadOfCacheHead == stream.current_version >= stream.cache_head
MissingEverywhere ==
    /\ stream.current_version < stream.cache_low
    /\ stream.current_version >= stream.file_upto

RetrySleeps == {"sleep_ahead_of_cache", "sleep_error"}

\* A fetch ahead of the cache head or with an error puts the loop to sleep
\* at the same current_version; a fetch of data missing everywhere ends the
\* loop.
FetchOutcome ==
    FetchStep =>
        /\ (stream'.fetch.status = "Err" \/ AheadOfCacheHead) =>
              /\ stream'.pc \in RetrySleeps
              /\ stream'.current_version = stream.current_version
        /\ (stream'.fetch.status /= "Err" /\ MissingEverywhere) =>
              stream'.pc = "done"

\* The only step out of the sleep is back to the fetch, at the same
\* current_version; the loop that ended stays ended.
SleepEndsInRetry ==
    /\ stream.pc \in RetrySleeps =>
          /\ stream'.pc \in {stream.pc, "fetch"}
          /\ stream'.current_version = stream.current_version
    /\ stream.pc = "done" => stream'.pc = "done"

\* C25: a fetch that is ahead of the cache head or fails with an error is
\* retried after a sleep at the same current_version, the loop does not end
\* on it; a fetch of data missing from both the cache and the file store
\* ends the stream.
C25_RetryOrEndAfterFetch ==
    /\ [][FetchOutcome]_vars
    /\ [][SleepEndsInRetry]_vars
    /\ (stream.pc \in RetrySleeps) ~> (stream.pc = "fetch")

\* The loop sent a batch, found itself ahead of the cache, slept and is
\* back at its fetch.
C25_Witness ==
    /\ stream.pc = "fetch"
    /\ stream.fetch.status = "AheadOfCache"
    /\ Len(stream.channel) > 1
    /\ stream.rx_open

\* The loop ended on a data gap with its client still there.
C25_WitnessDataGap ==
    /\ stream.pc = "done"
    /\ stream.fetch.status = "DataGap"
    /\ stream.rx_open

(***************************************************************************)
(* Further properties of the commit path.                                  *)
(***************************************************************************)
\* The versions of the call in progress whose value set is empty.
EmptyVersions ==
    {put_call.first_version + (i - 1) :
        i \in {j \in 1 .. Len(put_call.value_state_sets) :
                  DOMAIN put_call.value_state_sets[j] = {}}}

\* C31: a successful call stages one usage record for every version of its
\* batch and for no other version; the record of a version whose value set
\* is empty is that of the version before it.  Hence a call whose first
\* version follows the last committed one finds the usage it starts from.
C31_UsageRecordForEveryVersion ==
    /\ put_result = "Ok" =>
          /\ DOMAIN ledger_batch = CallVersions
          /\ \A V \in EmptyVersions : ledger_batch[V] = StagedUsageBefore(V)
    /\ (put_result /= "none" /\ version_data /= EmptyMap
        /\ put_call.first_version = NextVersion) =>
          put_result /= "NotFound"

\* A successful call that follows the last committed version of a store
\* with state, and whose batch ends in an empty value set.
C31_Witness ==
    /\ put_result = "Ok"
    /\ Len(put_call.value_state_sets) >= 2
    /\ LastVersionOfCall \in EmptyVersions
    /\ ledger_batch[LastVersionOfCall] /= UsageZero
    /\ put_call.first_version = NextVersion
    /\ put_call.first_version - 1 \in DOMAIN version_data
    /\ version_data[put_call.first_version - 1] /= UsageZero

\* The entries the value sets of the call in progress hold for the keys of
\* shard s: the pair (K, value) of the set at index i as (K, first_version + i).
ValueSetEntriesOf(s) ==
    {[key |-> t[2], version |-> put_call.first_version + (t[1] - 1),
      value |-> put_call.value_state_sets[t[1]][t[2]]] :
        t \in {u \in (1 .. Len(put_call.value_state_sets)) \X Keys :
                  /\ u[2] \in DOMAIN put_call.value_state_sets[u[1]]
                  /\ get_shard_id(u[2]) = s}}

ScopeDone == io_pool.pc = "joined" /\ put_result /= "none"

\* C33: whatever order the workers of the pool ran the lookups and the
\* inserts in, when the scope has returned the cache holds one entry for
\* every key of the batch and no other (none when there is no base version),
\* each the key's last value at or before the base version, and the call
\* ends with the result and the staged writes of a run that primes the
\* cache one key after the other.
C33_LookupOrderDoesNotShow ==
    ScopeDone =>
        LET base_version == put_call.first_version - 1
            r == put_value_sets(state_kv_db, version_data, put_call.value_state_sets,
                                put_call.first_version, put_call.expected_usage,
                                EmptyMap, EmptyBatches)
        IN  /\ io_pool.spawned = {}
            /\ DOMAIN io_pool.found = {}
            /\ io_pool.cache =
                  IF base_version >= 0
                  THEN PrimeCache(state_kv_db, KeySet(put_call.value_state_sets),
                                  base_version)
                  ELSE EmptyMap
            /\ put_result = r.result
            /\ ledger_batch = r.ledger
            /\ sharded_state_kv_batches = r.batches

\* A successful call whose scope ran two lookups, one that found a live
\* value the batch makes stale and one that found none.
C33_Witness ==
    /\ ScopeDone
    /\ put_result = "Ok"
    /\ DOMAIN io_pool.cache = Keys
    /\ \E K, L \in Keys :
          /\ io_pool.cache[K].value /= None
          /\ io_pool.cache[L].value = None
          /\ StagedEntriesOf(K, io_pool.cache[K].version) /= {}

(***************************************************************************)
(* Further properties of the crash recovery.                               *)
(***************************************************************************)
\* C34: with no overall commit progress stored, sync_commit_progress returns
\* without a panic and leaves the ledger db, the state K/V db and their
\* progress markers as they were, whatever the two markers are and in
\* either mode.
C34_NoOverallProgressDoesNothing ==
    (sync_result /= "none" /\ overall_commit_progress = NoProgress) =>
        /\ sync_result = "Ok"
        /\ LedgerUntouched
        /\ StateKvUntouched

\* A strict run with no overall progress, no ledger progress and a state
\* K/V db that holds versions up to 5.
C34_Witness ==
    /\ sync_result = "Ok"
    /\ overall_commit_progress = NoProgress
    /\ sync_call.crash_if_difference_is_too_large
    /\ sync_call.ledger_before = NoProgress
    /\ sync_call.state_kv_before = 5
    /\ state_kv_db /= {}

\* C35: in strict mode the ledger db is checked against the bound and
\* truncated before the state K/V db is checked.  A run whose ledger
\* difference is within the bound and whose state K/V difference is beyond
\* it panics with the ledger db truncated to the overall progress and the
\* state K/V db as it was; a run whose ledger difference is beyond the bound
\* panics with both stores as they were.
C35_LedgerIsHandledFirst ==
    (SyncRanPastChecks /\ sync_call.crash_if_difference_is_too_large) =>
        /\ (/\ LedgerDifference <= MAX_COMMIT_PROGRESS_DIFFERENCE
            /\ StateKvDifference > MAX_COMMIT_PROGRESS_DIFFERENCE) =>
              /\ sync_result = "Panic"
              /\ LedgerAtOverall
              /\ sync_call.truncated_ledger <=> LedgerDifference /= 0
              /\ StateKvUntouched
        /\ LedgerDifference > MAX_COMMIT_PROGRESS_DIFFERENCE =>
              /\ sync_result = "Panic"
              /\ LedgerUntouched
              /\ StateKvUntouched

\* A strict run with the ledger db 5 versions and the state K/V db one more
\* than the bound past the overall progress: it panicked after the ledger
\* db was truncated.
C35_Witness ==
    /\ sync_result = "Panic"
    /\ sync_call.crash_if_difference_is_too_large
    /\ overall_commit_progress = 100
    /\ LedgerDifference = 5
    /\ StateKvDifference = MAX_COMMIT_PROGRESS_DIFFERENCE + 1
    /\ sync_call.truncated_ledger
    /\ ledger_commit_progress = overall_commit_progress
    /\ 105 \notin DOMAIN version_data
    /\ StateKvUntouched

(***************************************************************************)
(* Further properties of the reads.                                        *)
(***************************************************************************)
\* The results of at most `requests` calls of get_value_chunk_with_proof on
\* the open store, the first at first_index and each later one at the
\* last_index of the chunk before it plus one, up to the first call that
\* returns no chunk.
RECURSIVE ChunksFrom(_, _, _, _)
ChunksFrom(version, first_index, chunk_size, requests) ==
    IF requests = 0 THEN <<>>
    ELSE LET c == get_value_chunk_with_proof(state_kv_db, state_merkle_db, version,
                                             first_index, chunk_size)
         IN  IF c.result /= "Ok" THEN <<c>>
             ELSE <<c>> \o ChunksFrom(version, c.last_index + 1, chunk_size, requests - 1)

\* The entries of the chunks of a sequence of results, one after the other.
RECURSIVE EntriesOf(_)
EntriesOf(chunks) ==
    IF chunks = <<>> \/ Head(chunks).result /= "Ok" THEN <<>>
    ELSE Head(chunks).raw_values \o EntriesOf(Tail(chunks))

\* The chunks read from index 0 with the version and the chunk size of the
\* query end in NotFound after at most one request per leaf and one more,
\* and their entries are the leaves of the version, each once, in strictly
\* increasing order of key hash, also from one chunk to the next.
EnumeratesEveryLeafOnce ==
    LET leaves == state_merkle_db[query.version]
        chunks == ChunksFrom(query.version, 0, query.chunk_size, Cardinality(leaves) + 1)
        entries == EntriesOf(chunks)
    IN  /\ chunks[1] = query.result
        /\ chunks[Len(chunks)].result = "NotFound"
        /\ Len(entries) = Cardinality(leaves)
        /\ {e.key : e \in {entries[i] : i \in DOMAIN entries}} = {l.key : l \in leaves}
        /\ \A i, j \in DOMAIN entries :
              i < j => KeyHash(entries[i].key) < KeyHash(entries[j].key)
        /\ \A k \in 1 .. (Len(chunks) - 1) :
              /\ chunks[k].last_index - chunks[k].first_index + 1 = Len(chunks[k].raw_values)
              /\ k > 1 => /\ chunks[k].first_index = chunks[k - 1].last_index + 1
                          /\ chunks[k].first_key > chunks[k - 1].last_key

\* A request for the chunk at index 0 of a version of the open store.
FirstChunkRequested ==
    /\ query.op = "get_value_chunk_with_proof"
    /\ query.first_index = 0

\* C36 as stated: for any chunk size, the chunks requested from index 0
\* until NotFound enumerate every leaf of the version exactly once, in
\* strictly increasing key-hash order, with no gap and no overlap.
C36_ChunksEnumerateEveryLeafOnce ==
    FirstChunkRequested => EnumeratesEveryLeafOnce

\* C36, amended: the same for a chunk size of at least 1.
C36_NonEmptyChunksEnumerateEveryLeafOnce ==
    (FirstChunkRequested /\ query.chunk_size >= 1) => EnumeratesEveryLeafOnce

\* Two leaves whose keys sort the other way than their hashes, read in two
\* chunks of one entry.
C36_Witness ==
    /\ FirstChunkRequested
    /\ query.chunk_size = 1
    /\ Cardinality(state_merkle_db[query.version]) = 2
    /\ query.result.result = "Ok"
    /\ EnumeratesEveryLeafOnce

\* The leaves of the key of the query in the tree of its version.
LeavesOfQuery == {l \in state_merkle_db[query.version] : l.key = query.state_key}

\* A read with proof of a version that has a persisted tree.
ProofReadOfTree ==
    /\ query.op = "get_state_value_with_proof_by_version_ext"
    /\ query.version \in DOMAIN state_merkle_db

\* The key of the query has a live value in the state K/V db at or before V.
LiveAtOrBefore(V) ==
    \E r \in LatestRow(state_kv_db, query.state_key, V) : r.value /= None

\* C37: on a version with a tree, the read returns the value None exactly
\* when the tree has no leaf for the key.  With a leaf (key, v') a returned
\* value is the one the state K/V db holds for the key at exactly v', and
\* the read fails, and does not return None, exactly when the state K/V db
\* has no live value for the key at or before v'.
C37_ProofReadFollowsTheLeaf ==
    ProofReadOfTree =>
        LET r == query.result
        IN  /\ (r.result = "Ok" /\ r.value = None) <=> LeavesOfQuery = {}
            /\ \A l \in LeavesOfQuery :
                  /\ r.result = "Ok" =>
                        \E row \in state_kv_db :
                            /\ row.key = query.state_key
                            /\ row.version = l.version
                            /\ row.value = r.value
                            /\ ValueHash(r.value) = l.value_hash
                  /\ r.result = "MissingValue" <=> ~ LiveAtOrBefore(l.version)
                  /\ r.result \in {"Ok", "MissingValue"}

\* A read at a version after the one that wrote the leaf, answered from the
\* state K/V db of a store that was pruned.
C37_Witness ==
    /\ ProofReadOfTree
    /\ query.result.result = "Ok"
    /\ \E l \in LeavesOfQuery : l.version < query.version
    /\ \E v \in DOMAIN ledger_txns :
          \E K \in DOMAIN ledger_txns[v].write_set :
              ~ \E row \in state_kv_db : row.key = K /\ row.version = v

\* A leaf whose value was pruned from the state K/V db: the read fails.
C37_WitnessMissing ==
    /\ ProofReadOfTree
    /\ LeavesOfQuery /= {}
    /\ query.result.result = "MissingValue"

\* A key that was deleted before the version read: no leaf, the value None.
C37_WitnessNone ==
    /\ ProofReadOfTree
    /\ LeavesOfQuery = {}
    /\ query.result.result = "Ok"
    /\ \E v \in DOMAIN state_merkle_db :
          v < query.version /\ \E l \in state_merkle_db[v] : l.key = query.state_key

(***************************************************************************)
(* Further properties of the startup.                                      *)
(***************************************************************************)
\* The latest snapshot a reconstruction found, from the version it took as
\* the next one: NoVersion when it found none.
LatestSnapshotOfCall == create_call.snapshot_next_version - 1

BatchesInChannel == SelectSeq(stream.channel, LAMBDA item : item.type = "data")

\* The responses in the channel are in order: a batch holds the versions
\* first .. last with first <= last, a batch follows the one before it with
\* no version between them, the batch pushed last ends right before
\* current_version, and the status response of the request, while it is in
\* the channel, is followed by the batch that starts at starting_version.
ChannelInOrder ==
    LET batches == BatchesInChannel
        n == Len(batches)
    IN  /\ \A i \in 1 .. n : batches[i].first <= batches[i].last
        /\ \A i \in 1 .. (n - 1) : batches[i + 1].first = batches[i].last + 1
        /\ n > 0 => batches[n].last + 1 = stream.current_version
        /\ \A i \in 2 .. Len(stream.channel) : stream.channel[i].type = "data"
        /\ (Len(stream.channel) >= 2 /\ stream.channel[1].type = "status") =>
              stream.channel[2].first = stream.channel[1].first
        /\ (Len(stream.channel) = 1 /\ stream.channel[1].type = "status") =>
              stream.current_version = stream.channel[1].first

\* A step that changes current_version is a push the channel accepted: the
\* batch appended starts at the current version, is not empty, and the
\* current version becomes the version after its last.
VersionAdvancesWithPush ==
    stream'.current_version /= stream.current_version =>
        /\ stream.pc = "send"
        /\ Len(stream'.channel) = Len(stream.channel) + 1
        /\ LET item == stream'.channel[Len(stream'.channel)]
           IN  /\ stream'.channel = Append(stream.channel, item)
               /\ item.type = "data"
               /\ item.first = stream.current_version
               /\ item.last >= item.first
               /\ stream'.current_version = item.last + 1

\* A step that puts a response into the channel moves current_version.
PushAdvancesVersion ==
    Len(stream'.channel) > Len(stream.channel) =>
        stream'.current_version /= stream.current_version

C39_WitnessAfterRetry ==
    /\ stream.pc = "sleep_error"
    /\ Len(BatchesInChannel) >= 1
    /\ BatchesInChannel[Len(BatchesInChannel)].last + 1 = stream.current_version

====
